---- MODULE Spec2Model ----
(***************************************************************************)
(* Model of the rn-storybook-doc-generator core: the Source Locator        *)
(* (SourceExtractor) and the DocumentationGenerator (inheritance           *)
(* resolution, parent props file lookup, component discovery, filtering).  *)
(*                                                                         *)
(* The library on disk is the variable fs: a function from paths to nodes. *)
(* A path is a sequence of names, a name is a sequence of one-character    *)
(* strings, so that the code's string operations (toLowerCase, the kebab   *)
(* regex, startsWith, endsWith) are computed and not assumed.              *)
(***************************************************************************)
EXTENDS Integers, Sequences, FiniteSets, TLC

VARIABLES fs, config, basePropsCache, call, ret, log

vars == <<fs, config, basePropsCache, call, ret, log>>

(***************************************************************************)
(* Bounds                                                                  *)
(***************************************************************************)
\* longest sources / sourcesContent list of a source map of the locator runs
MaxLen == 2

(***************************************************************************)
(* JavaScript values                                                       *)
(***************************************************************************)
NULL == [kind |-> "null"]
THROWN == [kind |-> "throw"]

Text(i) == [kind |-> "text", id |-> i]

\* one line of console output: console.log, console.warn or console.error
Diag(level, msg, about) == [level |-> level, msg |-> msg, about |-> about]

\* the result of a function: its return value (or THROWN) and what it logged
Outcome(value, logged) == [value |-> value, logged |-> logged]

RECURSIVE SeqsUpTo(_, _)
SeqsUpTo(S, n) ==
  IF n = 0 THEN {<<>>}
  ELSE LET shorter == SeqsUpTo(S, n - 1)
       IN shorter \cup {Append(s, x) : s \in {t \in shorter : Len(t) = n - 1}, x \in S}

(***************************************************************************)
(* File system                                                             *)
(***************************************************************************)
DirNode(entries) == [kind |-> "dir", entries |-> entries]
FileNode(data) == [kind |-> "file", data |-> data]

\* contents of a file, as JSON.parse sees it
InvalidJson == [json |-> "invalid"]
JsonNull == [json |-> "null"]
Absent == [present |-> FALSE, items |-> <<>>]
Listed(items) == [present |-> TRUE, items |-> items]
SourceMap(sources, sourcesContent) ==
  [json |-> "object", sources |-> sources, sourcesContent |-> sourcesContent]

existsSync(path) == path \in DOMAIN fs

\* fs.readFileSync followed by JSON.parse: the parsed value, or THROWN
ReadAndParse(path) ==
  IF ~existsSync(path) THEN THROWN
  ELSE IF fs[path].kind # "file" THEN THROWN
  ELSE IF fs[path].data.json = "invalid" THEN THROWN
  ELSE fs[path].data

(***************************************************************************)
(* SourceExtractor                                                         *)
(***************************************************************************)
\* faulty variant: readSourceMap without its try/catch
readSourceMapNoCatch(mapFilePath) ==
  Outcome(ReadAndParse(mapFilePath), <<>>)

readSourceMap(mapFilePath) ==
  LET parsed == ReadAndParse(mapFilePath)
  IN IF parsed = THROWN
     THEN Outcome(NULL, <<Diag("error", "Error reading source map", mapFilePath)>>)
     ELSE IF parsed.json = "null" THEN Outcome(NULL, <<>>)
     ELSE Outcome(parsed, <<>>)

\* an index argument: left out (the parameter's default applies) or given
NoIndex == [given |-> FALSE, value |-> 0]
Index(i) == [given |-> TRUE, value |-> i]
sourceIndexOf(arg) == IF arg.given THEN arg.value ELSE 0

\* faulty variant: the bounds test is > instead of >=
extractSourceContentOffByOne(mapFilePath, arg) ==
  LET sourceIndex == sourceIndexOf(arg)
      read == readSourceMap(mapFilePath)
      sourceMap == read.value
  IN IF sourceMap = THROWN THEN read
     ELSE IF sourceMap = NULL THEN Outcome(NULL, read.logged)
     ELSE IF ~sourceMap.sourcesContent.present \/ Len(sourceMap.sourcesContent.items) = 0
     THEN Outcome(NULL, read.logged \o <<Diag("error", "No source content found", mapFilePath)>>)
     ELSE IF sourceIndex > Len(sourceMap.sourcesContent.items)
     THEN Outcome(NULL, read.logged \o <<Diag("error", "Source index out of bounds", mapFilePath)>>)
     ELSE IF sourceIndex + 1 \in DOMAIN sourceMap.sourcesContent.items
     THEN Outcome(sourceMap.sourcesContent.items[sourceIndex + 1], read.logged)
     ELSE Outcome([kind |-> "undefined"], read.logged)

extractSourceContent(mapFilePath, arg) ==
  LET sourceIndex == sourceIndexOf(arg)
      read == readSourceMap(mapFilePath)
      sourceMap == read.value
  IN IF sourceMap = THROWN THEN read
     ELSE IF sourceMap = NULL THEN Outcome(NULL, read.logged)
     ELSE IF ~sourceMap.sourcesContent.present \/ Len(sourceMap.sourcesContent.items) = 0
     THEN Outcome(NULL, read.logged \o <<Diag("error", "No source content found", mapFilePath)>>)
     ELSE IF sourceIndex >= Len(sourceMap.sourcesContent.items)
     THEN Outcome(NULL, read.logged \o <<Diag("error", "Source index out of bounds", mapFilePath)>>)
     ELSE Outcome(sourceMap.sourcesContent.items[sourceIndex + 1], read.logged)

getSourceFileName(mapFilePath, arg) ==
  LET sourceIndex == sourceIndexOf(arg)
      read == readSourceMap(mapFilePath)
      sourceMap == read.value
  IN IF sourceMap = THROWN THEN read
     ELSE IF sourceMap = NULL \/ ~sourceMap.sources.present \/ Len(sourceMap.sources.items) = 0
     THEN Outcome(NULL, read.logged)
     ELSE IF sourceIndex >= Len(sourceMap.sources.items)
     THEN Outcome(NULL, read.logged)
     ELSE Outcome(sourceMap.sources.items[sourceIndex + 1], read.logged)

(***************************************************************************)
(* Strings: a string is a sequence of one-character strings                *)
(***************************************************************************)
Uppers == <<"A","B","C","D","E","F","G","H","I","J","K","L","M",
            "N","O","P","Q","R","S","T","U","V","W","X","Y","Z">>
Lowers == <<"a","b","c","d","e","f","g","h","i","j","k","l","m",
            "n","o","p","q","r","s","t","u","v","w","x","y","z">>
Digits == <<"0","1","2","3","4","5","6","7","8","9">>

UpperSet == {Uppers[i] : i \in DOMAIN Uppers}
LowerOrDigitSet == {Lowers[i] : i \in DOMAIN Lowers} \cup {Digits[i] : i \in DOMAIN Digits}
LowerOf == [c \in UpperSet |-> Lowers[CHOOSE i \in DOMAIN Uppers : Uppers[i] = c]]

IsUpper(c) == c \in UpperSet
IsLowerOrDigit(c) == c \in LowerOrDigitSet
lowerChar(c) == IF IsUpper(c) THEN LowerOf[c] ELSE c

toLowerCase(str) == [i \in DOMAIN str |-> lowerChar(str[i])]

startsWith(str, prefix) ==
  Len(str) >= Len(prefix) /\ SubSeq(str, 1, Len(prefix)) = prefix
endsWith(str, suffix) ==
  Len(str) >= Len(suffix) /\ SubSeq(str, Len(str) - Len(suffix) + 1, Len(str)) = suffix
\* str.replace(/suffix$/, '')
stripSuffix(str, suffix) ==
  IF endsWith(str, suffix) THEN SubSeq(str, 1, Len(str) - Len(suffix)) ELSE str
\* str.substring(n)
substring(str, n) == SubSeq(str, n + 1, Len(str))

\* str.replace(/([a-z0-9])([A-Z])/g, '$1-$2')
RECURSIVE hyphenate(_)
hyphenate(str) ==
  IF Len(str) < 2 THEN str
  ELSE IF IsLowerOrDigit(str[1]) /\ IsUpper(str[2])
       THEN <<str[1], "-">> \o hyphenate(Tail(str))
       ELSE <<str[1]>> \o hyphenate(Tail(str))

\* faulty variant: the kebab form without the hyphens
toKebabNoHyphen(str) == toLowerCase(str)

toKebab(str) == toLowerCase(hyphenate(str))

\* [...new Set(list)]: first occurrences, in order
RECURSIVE unique(_)
unique(list) ==
  IF list = <<>> THEN <<>>
  ELSE LET front == unique(SubSeq(list, 1, Len(list) - 1))
           last == list[Len(list)]
       IN IF \E i \in DOMAIN front : front[i] = last THEN front ELSE Append(front, last)

S_Props == <<"P","r","o","p","s">>
S_Component == <<"C","o","m","p","o","n","e","n","t">>
S_Wm == <<"W","m">>
S_BaseProps == <<"B","a","s","e","P","r","o","p","s">>
S_components == <<"c","o","m","p","o","n","e","n","t","s">>
S_core == <<"c","o","r","e">>
S_node_modules == <<"n","o","d","e","_","m","o","d","u","l","e","s">>
Ext_props == <<".","p","r","o","p","s",".","j","s",".","m","a","p">>
Ext_component == <<".","c","o","m","p","o","n","e","n","t",".","j","s",".","m","a","p">>
Ext_styles == <<".","s","t","y","l","e","s",".","j","s",".","m","a","p">>
Ext_js == <<".","c","o","m","p","o","n","e","n","t",".","j","s">>
BaseComponentMap == <<"b","a","s","e">> \o Ext_component

(***************************************************************************)
(* Paths and directories                                                   *)
(***************************************************************************)
LibraryPath == <<<<"l","i","b">>>>

join(path, name) == Append(path, name)
basename(path) == path[Len(path)]

isDirectory(path) == existsSync(path) /\ fs[path].kind = "dir"
isFile(path) == existsSync(path) /\ fs[path].kind = "file"

Found(path) == [kind |-> "path", path |-> path]

(***************************************************************************)
(* DocumentationGenerator: parent props file lookup                        *)
(***************************************************************************)
RECURSIVE searchForFile(_, _)
RECURSIVE searchEntries(_, _, _)
searchEntries(dir, i, targetFileName) ==
  IF i > Len(fs[dir].entries) THEN NULL
  ELSE LET fullPath == join(dir, fs[dir].entries[i])
       IN IF isDirectory(fullPath)
          THEN LET found == searchForFile(fullPath, targetFileName)
               IN IF found # NULL THEN found
                  ELSE searchEntries(dir, i + 1, targetFileName)
          ELSE IF isFile(fullPath) /\ fs[dir].entries[i] = targetFileName
          THEN Found(fullPath)
          ELSE searchEntries(dir, i + 1, targetFileName)

\* readdirSync failing (not a directory) is swallowed by the catch
searchForFile(dir, targetFileName) ==
  IF ~isDirectory(dir) THEN NULL ELSE searchEntries(dir, 1, targetFileName)

candidates(className) ==
  LET baseName == stripSuffix(stripSuffix(className, S_Props), S_Component)
      direct == <<toLowerCase(baseName), toKebab(baseName)>>
      noPrefix == substring(baseName, 2)
  IN IF startsWith(baseName, S_Wm)
     THEN direct \o <<toLowerCase(noPrefix), toKebab(noPrefix)>>
     ELSE direct

uniqueCandidates(className) == unique(candidates(className))

searchPaths == <<join(LibraryPath, S_components), join(LibraryPath, S_core)>>

RECURSIVE searchCandidates(_, _, _)
searchCandidates(list, c, r) ==
  IF c > Len(list) THEN NULL
  ELSE IF r > Len(searchPaths) THEN searchCandidates(list, c + 1, 1)
  ELSE IF ~existsSync(searchPaths[r]) THEN searchCandidates(list, c, r + 1)
  ELSE LET found == searchForFile(searchPaths[r], list[c] \o Ext_props)
       IN IF found # NULL THEN found ELSE searchCandidates(list, c, r + 1)

\* faulty variant: the loops nested the other way round, search roots outermost
RECURSIVE searchRootsFirst(_, _, _)
searchRootsFirst(list, c, r) ==
  IF r > Len(searchPaths) THEN NULL
  ELSE IF c > Len(list) THEN searchRootsFirst(list, 1, r + 1)
  ELSE IF ~existsSync(searchPaths[r]) THEN searchRootsFirst(list, 1, r + 1)
  ELSE LET found == searchForFile(searchPaths[r], list[c] \o Ext_props)
       IN IF found # NULL THEN found ELSE searchRootsFirst(list, c + 1, r)

findParentPropsFileRootsFirst(className) ==
  searchRootsFirst(uniqueCandidates(className), 1, 1)

findParentPropsFile(className) ==
  searchCandidates(uniqueCandidates(className), 1, 1)

(***************************************************************************)
(* Source Locator runs: one artifact path, any content, any index          *)
(***************************************************************************)
MapPath == <<<<"m">>>>

LocatorTexts == {Text(1), Text(2), NULL}
LocatorLists == {Absent} \cup {Listed(items) : items \in SeqsUpTo(LocatorTexts, MaxLen)}
LocatorData ==
  {InvalidJson, JsonNull} \cup {SourceMap(s, c) : s \in LocatorLists, c \in LocatorLists}
LocatorFileSystems ==
  {<<>>} \cup {[p \in {MapPath} |-> DirNode(<<>>)]}
         \cup {[p \in {MapPath} |-> FileNode(d)] : d \in LocatorData}
IndexArgs == {NoIndex} \cup {Index(i) : i \in 0..MaxLen}

NoConfig == [kind |-> "none"]
NoCall == [op |-> "none"]

InitLocator ==
  /\ fs \in LocatorFileSystems
  /\ config = NoConfig
  /\ basePropsCache = NULL
  /\ call = NoCall
  /\ ret = NULL
  /\ log = <<>>

ExtractSourceContent ==
  \E arg \in IndexArgs :
    \E out \in {extractSourceContent(MapPath, arg)} :
       /\ call' = [op |-> "extractSourceContent", path |-> MapPath, index |-> arg]
       /\ ret' = out.value
       /\ log' = out.logged
       /\ UNCHANGED <<fs, config, basePropsCache>>

GetSourceFileName ==
  \E arg \in IndexArgs :
    \E out \in {getSourceFileName(MapPath, arg)} :
       /\ call' = [op |-> "getSourceFileName", path |-> MapPath, index |-> arg]
       /\ ret' = out.value
       /\ log' = out.logged
       /\ UNCHANGED <<fs, config, basePropsCache>>

NextLocator == ExtractSourceContent \/ GetSourceFileName

SpecLocator == InitLocator /\ [][NextLocator]_vars

\* what the artifact at MapPath holds, read off the file system directly
Unreadable == ~existsSync(MapPath) \/ fs[MapPath].kind # "file"
Unparsable == ~Unreadable /\ fs[MapPath].data.json = "invalid"
ParsedNull == ~Unreadable /\ fs[MapPath].data.json = "null"
ParsedObject == ~Unreadable /\ fs[MapPath].data.json = "object"
ListOf(field) ==
  IF ParsedObject THEN fs[MapPath].data[field] ELSE Absent
CalledIndex == IF call.index.given THEN call.index.value ELSE 0
NotFound(field) ==
  \/ Unreadable \/ Unparsable
  \/ ~ListOf(field).present
  \/ Len(ListOf(field).items) = 0
  \/ CalledIndex >= Len(ListOf(field).items)

\* C1: extractSourceContent returns null when the artifact cannot be read or
\* parsed, when sourcesContent is absent or empty, or when the index is out of
\* range; in every other case it returns exactly sourcesContent[index], the
\* index defaulting to 0.
C1_ExtractContract ==
  call.op = "extractSourceContent" =>
    IF NotFound("sourcesContent")
    THEN ret = NULL
    ELSE ret = ListOf("sourcesContent").items[CalledIndex + 1]

C1_Witness ==
  /\ call.op = "extractSourceContent"
  /\ ~call.index.given
  /\ ~NotFound("sourcesContent")
  /\ Len(ListOf("sourcesContent").items) = 2
  /\ ret = Text(2)

\* C2 as stated: every failure path of extractSourceContent and
\* getSourceFileName emits a diagnostic and returns null, raising nothing.
C2_Original ==
  /\ (call.op = "extractSourceContent" /\ NotFound("sourcesContent"))
       => (ret = NULL /\ Len(log) > 0)
  /\ (call.op = "getSourceFileName" /\ NotFound("sources"))
       => (ret = NULL /\ Len(log) > 0)

\* C2 amended: every failure path of both operations returns null and raises
\* nothing; a diagnostic is emitted exactly when the artifact cannot be read or
\* is not valid JSON (both operations) and, by extractSourceContent only, when
\* the parsed object has no or an empty sourcesContent list or the index is
\* out of range. getSourceFileName is silent on its own failure paths, and an
\* artifact whose JSON is the literal null is silent in both.
C2_FailurePaths ==
  /\ (call.op = "extractSourceContent" /\ NotFound("sourcesContent"))
       => /\ ret = NULL
          /\ Len(log) = (IF ParsedNull THEN 0 ELSE 1)
  /\ (call.op = "getSourceFileName" /\ NotFound("sources"))
       => /\ ret = NULL
          /\ Len(log) = (IF Unreadable \/ Unparsable THEN 1 ELSE 0)
  /\ ret # THROWN

C2_Witness ==
  /\ call.op = "getSourceFileName"
  /\ ParsedObject
  /\ ListOf("sources").present
  /\ CalledIndex >= Len(ListOf("sources").items)
  /\ Len(ListOf("sources").items) > 0
  /\ ret = NULL
  /\ log = <<>>

(***************************************************************************)
(* Source texts and what TypeScriptParser extracts from them               *)
(***************************************************************************)
\* a recovered TypeScript source, given by what the parser finds in it
TsSource(propsInfo, methodsInfo, styleInfo) ==
  [kind |-> "ts", propsInfo |-> propsInfo, methodsInfo |-> methodsInfo,
   styleInfo |-> styleInfo]
EmptyText == [kind |-> "empty"]
\* if (content), if (source): null and the empty string are falsy
truthy(value) == value # NULL /\ value # EmptyText

NoBase == <<>>
Prop(name, type) ==
  [name |-> name, type |-> type, inherited |-> FALSE, inheritedFrom |-> <<>>]
PropsInfo(className, props, baseClass) ==
  [kind |-> "propsInfo", className |-> className, props |-> props,
   baseClass |-> baseClass]
MethodsInfo(methods) == [kind |-> "methodsInfo", methods |-> methods]
StyleInfo(defaultClass, styleClasses) ==
  [kind |-> "styleInfo", defaultClass |-> defaultClass, styleClasses |-> styleClasses]

extractProps(source) == IF source.kind = "ts" THEN source.propsInfo ELSE NULL
extractMethods(source) == IF source.kind = "ts" THEN source.methodsInfo ELSE NULL
extractStyleClasses(source) == IF source.kind = "ts" THEN source.styleInfo ELSE NULL

OneSource(text) == FileNode(SourceMap(Absent, Listed(<<text>>)))

(***************************************************************************)
(* DocumentationGenerator: inheritance resolution                          *)
(***************************************************************************)
\* most ancestor types a library of the inheritance runs declares
MaxAncestors == 2
\* getInheritedProps frames the call stack holds; deeper recursion raises
\* RangeError. Longer than any chain that does not revisit a type.
MaxStack == MaxAncestors + 2

Cached(items) == [kind |-> "props", items |-> items]

\* the outcome of a method that may fill the cache: items returned, the cache
\* afterwards, console output, and whether a RangeError is propagating
Resolved(items, cache, logged, overflow) ==
  [items |-> items, cache |-> cache, logged |-> logged, overflow |-> overflow]

\* faulty variant: the root artifact is loaded again although the cache is filled
getBasePropsUncached(cache) ==
  LET baseComponentPath == join(join(LibraryPath, S_core), BaseComponentMap)
      read == extractSourceContent(baseComponentPath, NoIndex)
      baseSource == read.value
      propsInfo == IF truthy(baseSource) THEN extractProps(baseSource) ELSE NULL
  IN IF propsInfo # NULL /\ propsInfo.className = S_BaseProps
     THEN Resolved(propsInfo.props, Cached(propsInfo.props), read.logged, FALSE)
     ELSE Resolved(<<>>, cache, read.logged, FALSE)

getBaseProps(cache) ==
  IF cache # NULL THEN Resolved(cache.items, cache, <<>>, FALSE)
  ELSE LET baseComponentPath == join(join(LibraryPath, S_core), BaseComponentMap)
           read == extractSourceContent(baseComponentPath, NoIndex)
           baseSource == read.value
           propsInfo == IF truthy(baseSource) THEN extractProps(baseSource) ELSE NULL
       IN IF propsInfo # NULL /\ propsInfo.className = S_BaseProps
          THEN Resolved(propsInfo.props, Cached(propsInfo.props), read.logged, FALSE)
          ELSE Resolved(<<>>, cache, read.logged, FALSE)

\* faulty variant: every inherited property is tagged with the root's name
markInheritedAsRoot(props, from) ==
  [i \in DOMAIN props |->
     [props[i] EXCEPT !.inherited = TRUE, !.inheritedFrom = S_BaseProps]]

markInherited(props, from) ==
  [i \in DOMAIN props |-> [props[i] EXCEPT !.inherited = TRUE, !.inheritedFrom = from]]

\* faulty variant: BaseProps is resolved like any other type name
isRootTypeNever(baseClassName) == FALSE

\* if (baseClassName === 'BaseProps')
isRootType(baseClassName) == baseClassName = S_BaseProps

\* faulty variant: an unresolved ancestor raises instead of returning
unresolvedAncestorThrows(baseClassName, cache, logged) ==
  Resolved(<<>>, cache, logged, TRUE)

\* if (!parentPropsPath): warn and return what was accumulated, nothing
unresolvedAncestor(baseClassName, cache, logged) ==
  Resolved(<<>>, cache,
           logged \o <<Diag("warn", "Could not find props file for parent class",
                            baseClassName)>>,
           FALSE)

\* faulty variant: the grandparent's properties are put before the parent's
inheritChainFarFirst(parentProps, grandparentProps) == grandparentProps \o parentProps

\* inheritedProps.push(...parent's props); inheritedProps.push(...grandparent's)
inheritChain(parentProps, grandparentProps) == parentProps \o grandparentProps

\* depth: the number of getInheritedProps frames on the stack, this one included.
\* cut: the deepest frame whose catch block still runs when the stack is
\* exhausted (0: the RangeError leaves getInheritedProps altogether).
RECURSIVE getInheritedProps(_, _, _, _)
getInheritedProps(baseClassName, cache, depth, cut) ==
  IF depth > MaxStack THEN Resolved(<<>>, cache, <<>>, TRUE)
  ELSE IF isRootType(baseClassName)
  THEN LET base == getBaseProps(cache)
       IN Resolved(markInherited(base.items, S_BaseProps), base.cache, base.logged, FALSE)
  ELSE
    LET parentPropsPath == findParentPropsFile(baseClassName)
        debug == <<Diag("log", "Resolving parent", baseClassName)>>
    IN IF parentPropsPath = NULL
       THEN unresolvedAncestor(baseClassName, cache, debug)
       ELSE
         LET read == extractSourceContent(parentPropsPath.path, NoIndex)
             source == read.value
             propsInfo == IF truthy(source) THEN extractProps(source) ELSE NULL
         IN IF propsInfo = NULL
            THEN Resolved(<<>>, cache, debug \o read.logged, FALSE)
            ELSE
              LET own == markInherited(propsInfo.props, baseClassName)
                  logged == debug \o read.logged
                            \o <<Diag("log", "Extracted props", baseClassName)>>
              IN IF propsInfo.baseClass = NoBase
                 THEN Resolved(own, cache, logged, FALSE)
                 ELSE
                   LET up == getInheritedProps(propsInfo.baseClass, cache, depth + 1, cut)
                   IN IF ~up.overflow
                      THEN Resolved(inheritChain(own, up.items), up.cache,
                                    logged \o up.logged, FALSE)
                      ELSE IF depth <= cut
                      THEN Resolved(own, up.cache,
                                    logged \o up.logged
                                      \o <<Diag("error", "Error extracting", baseClassName)>>,
                                    FALSE)
                      ELSE Resolved(<<>>, up.cache, logged \o up.logged, TRUE)

(***************************************************************************)
(* DocumentationGenerator: filtering                                       *)
(***************************************************************************)
\* config.componentOverrides[componentName]?.[list]?.includes(name)
overridden(documentation, componentName, list, name) ==
  \E i \in DOMAIN documentation.componentOverrides :
    /\ documentation.componentOverrides[i].component = componentName
    /\ name \in documentation.componentOverrides[i][list]

\* faulty variant: excludeInheritedProps applies to own properties too
keepPropAnyOrigin(documentation, componentName, prop) ==
  /\ prop.name \notin documentation.excludeProps
  /\ prop.name \notin documentation.excludeInheritedProps
  /\ ~overridden(documentation, componentName, "excludeProps", prop.name)

\* the callback of doc.props.filter
keepProp(documentation, componentName, prop) ==
  /\ prop.name \notin documentation.excludeProps
  /\ ~(prop.inherited /\ prop.name \in documentation.excludeInheritedProps)
  /\ ~overridden(documentation, componentName, "excludeProps", prop.name)

\* faulty variant: the overrides of every component apply
keepMethodAnyOverride(documentation, componentName, method) ==
  /\ method.name \notin documentation.excludeMethods
  /\ \A i \in DOMAIN documentation.componentOverrides :
       method.name \notin documentation.componentOverrides[i].excludeMethods

\* the callback of doc.methods.filter
keepMethod(documentation, componentName, method) ==
  /\ method.name \notin documentation.excludeMethods
  /\ ~overridden(documentation, componentName, "excludeMethods", method.name)

\* the callback of doc.styles.filter
keepStyle(documentation, componentName, style) ==
  /\ style.className \notin documentation.excludeStyleClasses
  /\ ~overridden(documentation, componentName, "excludeStyleClasses", style.className)

\* faulty variant: the first property that is kept is dropped as well
filterComponentDocDroppingOne(doc) ==
  [doc EXCEPT !.props = LET kept == SelectSeq(doc.props, LAMBDA prop :
                                       keepProp(config.documentation, doc.componentName, prop))
                          IN IF kept = <<>> THEN kept ELSE Tail(kept),
              !.methods = SelectSeq(doc.methods, LAMBDA method :
                            keepMethod(config.documentation, doc.componentName, method)),
              !.styles = SelectSeq(doc.styles, LAMBDA style :
                           keepStyle(config.documentation, doc.componentName, style))]

\* faulty variant: the children are filtered away with the rest
filterComponentDocChildless(doc) ==
  [doc EXCEPT !.props = SelectSeq(doc.props, LAMBDA prop :
                          keepProp(config.documentation, doc.componentName, prop)),
              !.methods = SelectSeq(doc.methods, LAMBDA method :
                            keepMethod(config.documentation, doc.componentName, method)),
              !.styles = SelectSeq(doc.styles, LAMBDA style :
                           keepStyle(config.documentation, doc.componentName, style)),
              !.children = [defined |-> FALSE, items |-> <<>>]]

filterComponentDoc(doc) ==
  [doc EXCEPT !.props = SelectSeq(doc.props, LAMBDA prop :
                          keepProp(config.documentation, doc.componentName, prop)),
              !.methods = SelectSeq(doc.methods, LAMBDA method :
                            keepMethod(config.documentation, doc.componentName, method)),
              !.styles = SelectSeq(doc.styles, LAMBDA style :
                           keepStyle(config.documentation, doc.componentName, style))]

(***************************************************************************)
(* DocumentationGenerator: events                                          *)
(***************************************************************************)
S_Function == <<"F","u","n","c","t","i","o","n">>
S_on == <<"o","n">>
S_js == <<".","j","s">>
S_dot == <<".">>
S_dotdot == <<".",".">>
S_runtime == <<"@","w","a","v","e","m","a","k","e","r","/","a","p","p","-","r","n","-",
               "r","u","n","t","i","m","e">>

EventInfo(name, type, parameters) ==
  [name |-> name, type |-> type, parameters |-> parameters]

IsSpace(c) == c \in {" ", "\n", "\t"}

\* str from position k on matches \s*=>
arrowAt(str, k) ==
  \E a \in k..(Len(str) - 1) :
    /\ \A x \in k..(a - 1) : IsSpace(str[x])
    /\ str[a] = "=" /\ str[a + 1] = ">"

\* positions <<i, j>> at which /\((.*?)\)\s*=>/ can match: "(" at i, ")" at j
parenArrow(str, i, j) ==
  /\ i < j
  /\ str[i] = "(" /\ str[j] = ")"
  /\ \A x \in (i + 1)..(j - 1) : str[x] # "\n"
  /\ arrowAt(str, j + 1)

\* faulty variant: the type is used verbatim even when it is a function signature
extractEventParametersVerbatim(eventType) ==
  IF eventType = S_Function THEN <<"(", ")">> ELSE eventType

extractEventParameters(eventType) ==
  IF eventType = S_Function THEN <<"(", ")">>
  ELSE LET starts == {i \in DOMAIN eventType :
                        \E j \in DOMAIN eventType : parenArrow(eventType, i, j)}
       IN IF starts = {} THEN eventType
          ELSE LET i == CHOOSE x \in starts : \A y \in starts : x <= y
                   ends == {j \in DOMAIN eventType : parenArrow(eventType, i, j)}
                   j == CHOOSE x \in ends : \A y \in ends : x <= y
               IN <<"(">> \o SubSeq(eventType, i + 1, j - 1) \o <<")">>

\* TypeScriptParser.extractEvents: the properties named on... of a callable type
containsArrow(type) ==
  \E a \in 1..(Len(type) - 1) : type[a] = "=" /\ type[a + 1] = ">"
extractEvents(props) ==
  SelectSeq(props, LAMBDA prop :
    startsWith(prop.name, S_on) /\ (prop.type = S_Function \/ containsArrow(prop.type)))

\* a compiled .component.js file, given by its event-emission call sites and
\* the module specifiers of its import statements
JsSource(events, imports) == [kind |-> "js", events |-> events, imports |-> imports]
Import(package, path) == [package |-> package, path |-> path]
JsFile(events, imports) ==
  FileNode([json |-> "invalid", text |-> JsSource(events, imports)])

\* fs.readFileSync(path, 'utf-8') of a file that is compiled JavaScript
readJs(path) ==
  IF ~isFile(path) THEN THROWN
  ELSE IF "text" \in DOMAIN fs[path].data THEN fs[path].data.text
  ELSE JsSource(<<>>, <<>>)

\* TypeScriptParser.extractEventCallbacks
extractEventCallbacks(jsContent) == jsContent.events

findReferencedComponents(jsContent) ==
  LET matching == SelectSeq(jsContent.imports, LAMBDA imp :
                     /\ imp.package = S_runtime
                     /\ Len(imp.path) >= 2
                     /\ imp.path[1] \in {S_core, S_components})
  IN [i \in DOMAIN matching |->
        LibraryPath \o SubSeq(matching[i].path, 1, Len(matching[i].path) - 1)
          \o <<matching[i].path[Len(matching[i].path)] \o S_js>>]

hasEvent(events, name) == \E i \in DOMAIN events : events[i].name = name

\* refEvents.forEach: push unless an event of that name is already present
RECURSIVE pushIfAbsent(_, _, _)
pushIfAbsent(callbackEvents, refEvents, i) ==
  IF i > Len(refEvents) THEN callbackEvents
  ELSE pushIfAbsent(
         IF hasEvent(callbackEvents, refEvents[i].name) THEN callbackEvents
         ELSE Append(callbackEvents,
                     EventInfo(refEvents[i].name, S_Function, refEvents[i].parameters)),
         refEvents, i + 1)

\* the loop over referenced components; THROWN when a read fails
RECURSIVE referencedEvents(_, _, _)
referencedEvents(callbackEvents, referenced, i) ==
  IF i > Len(referenced) THEN [kind |-> "events", items |-> callbackEvents]
  ELSE IF ~existsSync(referenced[i]) THEN referencedEvents(callbackEvents, referenced, i + 1)
  ELSE LET refContent == readJs(referenced[i])
       IN IF refContent = THROWN THEN THROWN
          ELSE referencedEvents(
                 pushIfAbsent(callbackEvents, extractEventCallbacks(refContent), 1),
                 referenced, i + 1)

\* the events of the component's own .component.js and of the files it imports
callbackEventsOf(jsFile) ==
  IF ~existsSync(jsFile) THEN [kind |-> "events", items |-> <<>>]
  ELSE LET jsContent == readJs(jsFile)
       IN IF jsContent = THROWN THEN THROWN
          ELSE LET events == extractEventCallbacks(jsContent)
                   own == [i \in DOMAIN events |->
                             EventInfo(events[i].name, S_Function, events[i].parameters)]
               IN referencedEvents(own, findReferencedComponents(jsContent), 1)

\* faulty variant: every event is appended, whether its name is present or not
mapSetAllAppending(values, events, i) == values \o SubSeq(events, i, Len(events))

\* faulty variant: an event whose name is present is taken out and set at the end
RECURSIVE mapSetAllMoving(_, _, _)
mapSetAllMoving(values, events, i) ==
  IF i > Len(events) THEN values
  ELSE mapSetAllMoving(
         Append(SelectSeq(values, LAMBDA v : v.name # events[i].name), events[i]),
         events, i + 1)

\* eventMap.set(e.name, e) for each event in turn; Array.from(eventMap.values())
RECURSIVE mapSetAll(_, _, _)
mapSetAll(values, events, i) ==
  IF i > Len(events) THEN values
  ELSE mapSetAll(
         IF hasEvent(values, events[i].name)
         THEN [k \in DOMAIN values |->
                 IF values[k].name = events[i].name THEN events[i] ELSE values[k]]
         ELSE Append(values, events[i]),
         events, i + 1)

\* faulty variant: the property-inferred events are set last and overwrite
mergeEventsPropsLast(propsEvents, callbackEvents) ==
  mapSetAll(mapSetAll(<<>>, callbackEvents, 1), propsEvents, 1)

mergeEvents(propsEvents, callbackEvents) ==
  mapSetAll(mapSetAll(<<>>, propsEvents, 1), callbackEvents, 1)

(***************************************************************************)
(* SourceExtractor.extractComponentSources                                 *)
(***************************************************************************)
\* files.find(f => f.endsWith(suffix)): the first such entry, <<>> when none
findEntry(files, suffix) ==
  LET hits == {i \in DOMAIN files : endsWith(files[i], suffix)}
  IN IF hits = {} THEN <<>>
     ELSE files[CHOOSE i \in hits : \A k \in hits : i <= k]

\* one facet: the content of the first map file with the suffix, NULL when
\* there is no such file or its content is missing or empty
facet(componentDir, files, suffix) ==
  LET mapName == findEntry(files, suffix)
      read == extractSourceContent(join(componentDir, mapName), NoIndex)
  IN IF mapName = <<>> THEN Outcome(NULL, <<>>)
     ELSE IF truthy(read.value) THEN read
     ELSE Outcome(NULL, read.logged)

extractComponentSources(componentDir) ==
  IF ~isDirectory(componentDir) THEN [thrown |-> TRUE, logged |-> <<>>]
  ELSE LET files == fs[componentDir].entries
           props == facet(componentDir, files, Ext_props)
           component == facet(componentDir, files, Ext_component)
           styles == facet(componentDir, files, Ext_styles)
       IN [thrown |-> FALSE,
           props |-> props.value, component |-> component.value, styles |-> styles.value,
           logged |-> props.logged \o component.logged \o styles.logged]

(***************************************************************************)
(* Configuration                                                           *)
(***************************************************************************)
Documentation(excludeProps, excludeInheritedProps, excludeMethods, excludeStyleClasses, componentOverrides) ==
  [excludeProps |-> excludeProps, excludeInheritedProps |-> excludeInheritedProps,
   excludeMethods |-> excludeMethods, excludeStyleClasses |-> excludeStyleClasses,
   componentOverrides |-> componentOverrides]

\* childComponents and componentAliases are objects: sequences of entries in
\* insertion order; the other lists are only tested with includes
Config(includeComponents, childComponents, componentAliases, excludeCategories, documentation) ==
  [includeComponents |-> includeComponents, childComponents |-> childComponents,
   componentAliases |-> componentAliases, excludeCategories |-> excludeCategories,
   documentation |-> documentation]

ChildMap(parent, children) == [parent |-> parent, children |-> children]
Child(name, relativePath) == [name |-> name, relativePath |-> relativePath]

\* this.config.childComponents[componentName]: its entries, <<>> when undefined
childConfigOf(componentName) ==
  LET hits == {i \in DOMAIN config.childComponents :
                 config.childComponents[i].parent = componentName}
  IN IF hits = {} THEN <<>>
     ELSE config.childComponents[CHOOSE i \in hits : TRUE].children

\* path.resolve(componentPath, relativePath), the relative path in segments
RECURSIVE resolve(_, _)
resolve(path, segments) ==
  IF segments = <<>> THEN path
  ELSE IF Head(segments) = S_dot THEN resolve(path, Tail(segments))
  ELSE IF Head(segments) = S_dotdot
  THEN resolve(SubSeq(path, 1, Len(path) - 1), Tail(segments))
  ELSE resolve(Append(path, Head(segments)), Tail(segments))

(***************************************************************************)
(* DocumentationGenerator.generateComponentDoc                             *)
(***************************************************************************)
S_DefaultStyle == <<"D","e","f","a","u","l","t"," ","s","t","y","l","e"," ",
                    "c","l","a","s","s">>

Style(className, description) == [className |-> className, description |-> description]

\* faulty variant: the default class is not taken out of the remaining classes
otherClassesAll(styleInfo) == styleInfo.styleClasses

\* styleInfo.styleClasses.filter(cls => cls !== styleInfo.defaultClass)
otherClasses(styleInfo) ==
  SelectSeq(styleInfo.styleClasses, LAMBDA cls : cls # styleInfo.defaultClass)
otherStyles(others) == [i \in DOMAIN others |-> Style(others[i], <<>>)]

\* the styles list built from a parsed styles source, empty without one
stylesOf(styleInfo) ==
  IF styleInfo = NULL THEN <<>>
  ELSE <<Style(styleInfo.defaultClass, S_DefaultStyle)>> \o otherStyles(otherClasses(styleInfo))

Undefined == [defined |-> FALSE, items |-> <<>>]
Defined(items) == [defined |-> TRUE, items |-> items]

\* what generateComponentDoc gives back: the document or NULL, the cache
\* afterwards and the console output
Generated(value, cache, logged) == [value |-> value, cache |-> cache, logged |-> logged]

\* faulty variant: the inherited properties are put in front of the own ones
accumulateInheritedFirst(ownProps, inheritedProps) == inheritedProps \o ownProps

\* allProps.push(...inheritedProps)
accumulate(ownProps, inheritedProps) == ownProps \o inheritedProps

\* catch (error) { console.error(`Error generating docs for ...`); return null; }
failed(componentPath, cache, logged) ==
  Generated(NULL, cache, logged \o <<Diag("error", "Error generating docs", componentPath)>>)

\* propsInfo.baseClass, NoBase when there is no property bag
baseClassOf(propsInfo) == IF propsInfo # NULL THEN propsInfo.baseClass ELSE NoBase

\* extractEvents(allProps).map(e => ({name, type, parameters}))
propsEventsOf(inferred) ==
  [i \in DOMAIN inferred |->
     EventInfo(inferred[i].name, inferred[i].type, extractEventParameters(inferred[i].type))]

\* methods of generateComponentDoc
methodsOf(methodsInfo) == IF methodsInfo # NULL THEN methodsInfo.methods ELSE <<>>

\* the doc object, filtered
assemble(componentPath, category, baseClass, allProps, methods, events, styles, childData) ==
  filterComponentDoc(
    [kind |-> "doc",
     componentName |-> basename(componentPath),
     componentPath |-> componentPath,
     category |-> category,
     props |-> allProps,
     methods |-> methods,
     events |-> events,
     styles |-> styles,
     baseClass |-> baseClass,
     children |-> IF Len(childData) > 0 THEN Defined(childData) ELSE Undefined])

RECURSIVE generateComponentDoc(_, _, _, _)
RECURSIVE generateChildren(_, _, _, _, _, _)

\* faulty variant: the child's document is put after those of the later entries
withChildLast(child, rest) ==
  Generated(rest.value \o (IF child.value # NULL THEN <<child.value>> ELSE <<>>),
            rest.cache, child.logged \o rest.logged)

\* one turn of the loop over the child entries: the child's document, if any,
\* put before those of the entries after it
withChild(child, rest) ==
  Generated((IF child.value # NULL THEN <<child.value>> ELSE <<>>) \o rest.value,
            rest.cache, child.logged \o rest.logged)
childThenRest(componentPath, category, childConfig, i, cut, child) ==
  withChild(child, generateChildren(componentPath, category, childConfig, i + 1,
                                    child.cache, cut))
\* faulty variant: a missing child path ends the loop
missingChildEndsLoop(childPath, rest) ==
  Generated(<<>>, rest.cache,
            <<Diag("warn", "Child component path not found", childPath)>>)

missingChild(childPath, rest) ==
  Generated(rest.value, rest.cache,
            <<Diag("warn", "Child component path not found", childPath)>> \o rest.logged)

\* the loop over Object.entries(childConfig), from entry i on
generateChildren(componentPath, category, childConfig, i, cache, cut) ==
  IF i > Len(childConfig) THEN Generated(<<>>, cache, <<>>)
  ELSE IF existsSync(resolve(componentPath, childConfig[i].relativePath))
  THEN childThenRest(componentPath, category, childConfig, i, cut,
                     generateComponentDoc(resolve(componentPath, childConfig[i].relativePath),
                                          category, cache, cut))
  ELSE missingChild(resolve(componentPath, childConfig[i].relativePath),
                    generateChildren(componentPath, category, childConfig, i + 1, cache, cut))

\* generateComponentDoc from the parsed styles on: children, doc, filter
finish(componentPath, category, baseClass, allProps, methods, events, styles, logged, children) ==
  Generated(assemble(componentPath, category, baseClass, allProps, methods, events, styles,
                     children.value),
            children.cache, logged \o children.logged)

\* generateComponentDoc from the call-site events on
withCallbacks(componentPath, category, cut, sources, baseClass, allProps, inherited, callbacks) ==
  IF callbacks = THROWN
  THEN failed(componentPath, inherited.cache, sources.logged \o inherited.logged)
  ELSE finish(componentPath, category, baseClass, allProps,
              methodsOf(IF truthy(sources.component)
                        THEN extractMethods(sources.component) ELSE NULL),
              mergeEvents(propsEventsOf(extractEvents(allProps)), callbacks.items),
              stylesOf(IF truthy(sources.styles)
                       THEN extractStyleClasses(sources.styles) ELSE NULL),
              sources.logged \o inherited.logged,
              generateChildren(componentPath, category,
                               childConfigOf(basename(componentPath)), 1,
                               inherited.cache, cut))

\* generateComponentDoc from the resolved inherited properties on
withInherited(componentPath, category, cut, sources, propsInfo, inherited) ==
  IF inherited.overflow
  THEN failed(componentPath, inherited.cache, sources.logged \o inherited.logged)
  ELSE withCallbacks(componentPath, category, cut, sources, baseClassOf(propsInfo),
                     IF propsInfo # NULL
                     THEN accumulate(propsInfo.props, inherited.items) ELSE <<>>,
                     inherited,
                     callbackEventsOf(join(componentPath,
                                           basename(componentPath) \o Ext_js)))

\* generateComponentDoc from the parsed property bag on
withProps(componentPath, category, cache, cut, sources, propsInfo) ==
  withInherited(componentPath, category, cut, sources, propsInfo,
                IF baseClassOf(propsInfo) # NoBase
                THEN getInheritedProps(propsInfo.baseClass, cache, 1, cut)
                ELSE Resolved(<<>>, cache, <<>>, FALSE))

\* faulty variant: a document needs both the props and the component source
withSourcesNeedingBoth(componentPath, category, cache, cut, sources) ==
  IF sources.thrown THEN failed(componentPath, cache, sources.logged)
  ELSE IF ~truthy(sources.props) \/ ~truthy(sources.component)
  THEN Generated(NULL, cache,
                 sources.logged \o <<Diag("warn", "No source files found", componentPath)>>)
  ELSE withProps(componentPath, category, cache, cut, sources, extractProps(sources.props))

\* generateComponentDoc from the extracted sources on
withSources(componentPath, category, cache, cut, sources) ==
  IF sources.thrown THEN failed(componentPath, cache, sources.logged)
  ELSE IF ~truthy(sources.props) /\ ~truthy(sources.component)
  THEN Generated(NULL, cache,
                 sources.logged \o <<Diag("warn", "No source files found", componentPath)>>)
  ELSE withProps(componentPath, category, cache, cut, sources,
                 IF truthy(sources.props) THEN extractProps(sources.props) ELSE NULL)

generateComponentDoc(componentPath, category, cache, cut) ==
  withSources(componentPath, category, cache, cut, extractComponentSources(componentPath))

(***************************************************************************)
(* Building a file system from a set of <<path, node>> pairs               *)
(***************************************************************************)
MakeFs(pairs) ==
  [p \in {pr[1] : pr \in pairs} |-> (CHOOSE pr \in pairs : pr[1] = p)[2]]

\* the members of an ordered universe that are in a set, in the universe's order
Keep(universe, set) == SelectSeq(universe, LAMBDA x : x \in set)
Range(list) == {list[i] : i \in DOMAIN list}

(***************************************************************************)
(* Parent props file lookup runs: props files of any candidate stem under  *)
(* components/chart and directly under core                                *)
(***************************************************************************)
C_WmPieChartProps == <<"W","m","P","i","e","C","h","a","r","t","P","r","o","p","s">>
C_BaseInputComponent ==
  <<"B","a","s","e","I","n","p","u","t","C","o","m","p","o","n","e","n","t">>
FindClassNames == {C_WmPieChartProps, C_BaseInputComponent}

F_wmpiechart == <<"w","m","p","i","e","c","h","a","r","t">>
F_wm_pie_chart == <<"w","m","-","p","i","e","-","c","h","a","r","t">>
F_piechart == <<"p","i","e","c","h","a","r","t">>
F_pie_chart == <<"p","i","e","-","c","h","a","r","t">>
F_baseinput == <<"b","a","s","e","i","n","p","u","t">>
F_base_input == <<"b","a","s","e","-","i","n","p","u","t">>
FindStems == <<F_base_input, F_baseinput, F_pie_chart, F_piechart, F_wm_pie_chart, F_wmpiechart>>
S_chart == <<"c","h","a","r","t">>

AnyPropsFile == OneSource(TsSource(PropsInfo(<<"X">>, <<>>, NoBase), NULL, NULL))

\* a search root: missing, or holding the props files of a set of stems
RootStates == {[exists |-> FALSE, stems |-> {}]}
              \cup {[exists |-> TRUE, stems |-> st] : st \in SUBSET Range(FindStems)}

FindFs(comp, core) ==
  LET compDir == join(LibraryPath, S_components)
      chartDir == join(compDir, S_chart)
      coreDir == join(LibraryPath, S_core)
      top == {<<LibraryPath,
                DirNode(Keep(<<S_components, S_core>>,
                             (IF comp.exists THEN {S_components} ELSE {})
                             \cup (IF core.exists THEN {S_core} ELSE {})))>>}
      compPart ==
        IF comp.exists
        THEN {<<compDir, DirNode(<<S_chart>>)>>,
              <<chartDir, DirNode([i \in DOMAIN Keep(FindStems, comp.stems) |->
                                     Keep(FindStems, comp.stems)[i] \o Ext_props])>>}
             \cup {<<join(chartDir, st \o Ext_props), AnyPropsFile>> : st \in comp.stems}
        ELSE {}
      corePart ==
        IF core.exists
        THEN {<<coreDir, DirNode([i \in DOMAIN Keep(FindStems, core.stems) |->
                                    Keep(FindStems, core.stems)[i] \o Ext_props])>>}
             \cup {<<join(coreDir, st \o Ext_props), AnyPropsFile>> : st \in core.stems}
        ELSE {}
  IN MakeFs(top \cup compPart \cup corePart)

InitFind ==
  /\ \E comp \in RootStates, core \in RootStates : fs = FindFs(comp, core)
  /\ config = NoConfig
  /\ basePropsCache = NULL
  /\ call = NoCall
  /\ ret = NULL
  /\ log = <<>>

FindParentPropsFile ==
  \E className \in FindClassNames :
    /\ call' = [op |-> "findParentPropsFile", className |-> className]
    /\ ret' = findParentPropsFile(className)
    /\ log' = <<>>
    /\ UNCHANGED <<fs, config, basePropsCache>>

NextFind == FindParentPropsFile

SpecFind == InitFind /\ [][NextFind]_vars

\* the candidate stems the claim names, written out for the two class names
ExpectedStems(className) ==
  IF className = C_WmPieChartProps
  THEN <<F_wmpiechart, F_wm_pie_chart, F_piechart, F_pie_chart>>
  ELSE <<F_baseinput, F_base_input>>

IsUnder(path, root) == Len(path) > Len(root) /\ SubSeq(path, 1, Len(root)) = root
MatchesIn(stem, root) ==
  \E path \in DOMAIN fs :
    IsUnder(path, root) /\ fs[path].kind = "file" /\ basename(path) = stem \o Ext_props
AnyMatch(stem) == \E r \in DOMAIN searchPaths : MatchesIn(stem, searchPaths[r])

\* C8: findParentPropsFile returns the file of the first candidate stem (in the
\* order direct-lowercase, kebab-case, prefix-stripped lowercase, prefix-stripped
\* kebab-case) that matches under any search root, in the first root where that
\* stem matches; an earlier candidate found only under core wins over a later
\* candidate found under components; null only when no candidate matches.
C8_FirstCandidateWins ==
  call.op = "findParentPropsFile" =>
    LET list == ExpectedStems(call.className)
        hits == {c \in DOMAIN list : AnyMatch(list[c])}
    IN IF hits = {} THEN ret = NULL
       ELSE LET c == CHOOSE x \in hits : \A y \in hits : x <= y
                r == CHOOSE x \in DOMAIN searchPaths :
                       /\ MatchesIn(list[c], searchPaths[x])
                       /\ \A y \in DOMAIN searchPaths :
                            MatchesIn(list[c], searchPaths[y]) => x <= y
            IN /\ ret.kind = "path"
               /\ isFile(ret.path)
               /\ basename(ret.path) = list[c] \o Ext_props
               /\ IsUnder(ret.path, searchPaths[r])

C8_Witness ==
  /\ call.op = "findParentPropsFile"
  /\ call.className = C_WmPieChartProps
  /\ ~MatchesIn(F_wmpiechart, searchPaths[1])
  /\ ~MatchesIn(F_wm_pie_chart, searchPaths[1])
  /\ MatchesIn(F_piechart, searchPaths[2])
  /\ ~MatchesIn(F_piechart, searchPaths[1])
  /\ MatchesIn(F_pie_chart, searchPaths[1])
  /\ ~AnyMatch(F_wmpiechart) /\ ~AnyMatch(F_wm_pie_chart)
  /\ ret = Found(join(searchPaths[2], F_piechart \o Ext_props))

(***************************************************************************)
(* Inheritance runs: the component basic/button, ancestor types BaseAProps,*)
(* BaseBProps, ... whose props files may be missing, unparsable or declare *)
(* any parent, and the root artifact core/base.component.js.map            *)
(***************************************************************************)
S_button == <<"b","u","t","t","o","n">>
S_basic == <<"b","a","s","i","c">>
S_shared == <<"s","h","a","r","e","d">>
S_string == <<"s","t","r","i","n","g">>
S_caption == <<"c","a","p","t","i","o","n">>
S_name == <<"n","a","m","e">>
S_id == <<"i","d">>
S_Base == <<"B","a","s","e">>
C_ButtonProps == <<"B","u","t","t","o","n","P","r","o","p","s">>
C_GhostProps == <<"G","h","o","s","t","P","r","o","p","s">>
C_OtherProps == <<"O","t","h","e","r","P","r","o","p","s">>

\* the i-th ancestor type: BaseAProps, BaseBProps, ...; its props file stem
TypeName(i) == S_Base \o <<Uppers[i]>> \o S_Props
TypeStem(i) == toLowerCase(S_Base \o <<Uppers[i]>>)
AncestorTypes == {TypeName(i) : i \in 1..MaxAncestors}
\* every parent type name a props file of these runs may declare
Bases == {NoBase, S_BaseProps, C_GhostProps} \cup AncestorTypes

OwnProps == <<Prop(S_caption, S_string), Prop(S_name, S_string)>>
TypeProps(i) == <<Prop(<<"f", Digits[i + 1]>>, S_string), Prop(S_name, S_string)>>
RootProps == <<Prop(S_id, S_string), Prop(S_name, S_string)>>

\* a props file: missing, unparsable, or declaring a parent type
Missing == [state |-> "missing"]
Garbage == [state |-> "garbage"]
Declares(baseClass) == [state |-> "parsed", baseClass |-> baseClass]
\* the root artifact: missing, or holding a property bag of some class name
RootStates3 == {Missing, Declares(S_BaseProps), Declares(C_OtherProps)}

ButtonPath == LibraryPath \o <<S_components, S_basic, S_button>>
\* odd ancestor types live under components/shared, even ones under core
TypeDir(i) ==
  IF i % 2 = 1 THEN LibraryPath \o <<S_components, S_shared>>
  ELSE LibraryPath \o <<S_core>>

PropsFileOf(className, props, st) ==
  IF st.state = "garbage" THEN OneSource(TsSource(NULL, NULL, NULL))
  ELSE OneSource(TsSource(PropsInfo(className, props, st.baseClass), NULL, NULL))

ButtonComponentFile == OneSource(TsSource(NULL, MethodsInfo(<<>>), NULL))

InheritFs(own, parents, root) ==
  LET present == {i \in 1..MaxAncestors : parents[i].state # "missing"}
      typeIndex == [i \in 1..MaxAncestors |-> i]
      namesIn(dir) ==
        [k \in DOMAIN Keep(typeIndex, {i \in present : TypeDir(i) = dir}) |->
           TypeStem(Keep(typeIndex, {i \in present : TypeDir(i) = dir})[k]) \o Ext_props]
      sharedDir == LibraryPath \o <<S_components, S_shared>>
      coreDir == LibraryPath \o <<S_core>>
      dirs ==
        {<<LibraryPath, DirNode(<<S_components, S_core>>)>>,
         <<join(LibraryPath, S_components), DirNode(<<S_basic, S_shared>>)>>,
         <<LibraryPath \o <<S_components, S_basic>>, DirNode(<<S_button>>)>>,
         <<ButtonPath,
           DirNode(<<S_button \o Ext_component>>
                   \o (IF own.state = "missing" THEN <<>> ELSE <<S_button \o Ext_props>>))>>,
         <<sharedDir, DirNode(namesIn(sharedDir))>>,
         <<coreDir,
           DirNode((IF root.state = "missing" THEN <<>> ELSE <<BaseComponentMap>>)
                   \o namesIn(coreDir))>>}
      files ==
        {<<join(ButtonPath, S_button \o Ext_component), ButtonComponentFile>>}
        \cup (IF own.state = "missing" THEN {}
              ELSE {<<join(ButtonPath, S_button \o Ext_props),
                      PropsFileOf(C_ButtonProps, OwnProps, own)>>})
        \cup (IF root.state = "missing" THEN {}
              ELSE {<<join(coreDir, BaseComponentMap),
                      OneSource(TsSource(PropsInfo(root.baseClass, RootProps, NoBase),
                                         NULL, NULL))>>})
        \cup {<<join(TypeDir(i), TypeStem(i) \o Ext_props),
                PropsFileOf(TypeName(i), TypeProps(i), parents[i])>> : i \in present}
  IN MakeFs(dirs \cup files)

NoExclusions == Documentation({}, {}, {}, {}, <<>>)
\* as DEFAULT_CONFIG: the inherited name and id are left out
InheritedExclusions == Documentation({}, {S_name, S_id}, {}, {}, <<>>)
InheritConfigs ==
  {Config({S_button}, <<>>, <<>>, {}, d) : d \in {NoExclusions, InheritedExclusions}}

\* The libraries of these runs: the ancestor types the component's chain visits
\* in turn (no type twice), and how the chain ends: the last type declares no
\* parent, the root, a type without a props file, or a type already visited, or
\* the last type's own file is unparsable. Types off the chain have no file.
Chains ==
  {c \in SeqsUpTo(1..MaxAncestors, MaxAncestors) :
     \A a, b \in DOMAIN c : a # b => c[a] # c[b]}
Ends(c) ==
  {[kind |-> "none"], [kind |-> "root"], [kind |-> "ghost"]}
  \cup (IF c = <<>> THEN {}
        ELSE {[kind |-> "garbage"]} \cup {[kind |-> "cycle", to |-> k] : k \in DOMAIN c})
\* the parent declared by the k-th type of the chain, the component itself for k = 0
BaseAt(c, e, k) ==
  IF k < Len(c) THEN TypeName(c[k + 1])
  ELSE IF e.kind = "root" THEN S_BaseProps
  ELSE IF e.kind = "ghost" THEN C_GhostProps
  ELSE IF e.kind = "cycle" THEN TypeName(c[e.to])
  ELSE NoBase
ParentFiles(c, e) ==
  [i \in 1..MaxAncestors |->
     IF \E k \in DOMAIN c : c[k] = i
     THEN LET k == CHOOSE x \in DOMAIN c : c[x] = i
          IN IF k = Len(c) /\ e.kind = "garbage" THEN Garbage
             ELSE Declares(BaseAt(c, e, k))
     ELSE Missing]
OwnFiles(c, e) ==
  {Declares(BaseAt(c, e, 0))}
  \cup (IF c = <<>> /\ e.kind = "none" THEN {Missing, Garbage} ELSE {})

InitInherit ==
  /\ \E c \in Chains :
       \E e \in Ends(c), root \in RootStates3 :
         \E own \in OwnFiles(c, e) :
           fs = InheritFs(own, ParentFiles(c, e), root)
  /\ config \in InheritConfigs
  /\ basePropsCache = NULL
  /\ call = NoCall
  /\ ret = NULL
  /\ log = <<>>

\* where the unwinding of an exhausted stack may stop: any frame, when the
\* resolution of baseClassName exhausts the stack at all
Cuts(baseClassName) ==
  IF baseClassName = NoBase THEN {MaxStack}
  ELSE LET full == getInheritedProps(baseClassName, basePropsCache, 1, MaxStack)
       IN IF \E d \in DOMAIN full.logged : full.logged[d].msg = "Error extracting"
          THEN 0..MaxStack
          ELSE {MaxStack}

DeclaredBase(componentPath) ==
  LET sources == extractComponentSources(componentPath)
      propsInfo == IF ~sources.thrown /\ truthy(sources.props)
                   THEN extractProps(sources.props) ELSE NULL
  IN IF propsInfo # NULL THEN propsInfo.baseClass ELSE NoBase

GenerateComponentDoc ==
  \E componentPath \in {ButtonPath}, category \in {S_basic} :
    \E cut \in Cuts(DeclaredBase(componentPath)) :
      \E out \in {generateComponentDoc(componentPath, category, basePropsCache, cut)} :
         /\ call' = [op |-> "generateComponentDoc", componentPath |-> componentPath,
                     category |-> category]
         /\ ret' = out.value
         /\ basePropsCache' = out.cache
         /\ log' = out.logged
         /\ UNCHANGED <<fs, config>>

GetInheritedProps ==
  \E baseClassName \in Bases \ {NoBase} :
    \E cut \in Cuts(baseClassName) :
      \E out \in {getInheritedProps(baseClassName, basePropsCache, 1, cut)} :
         /\ call' = [op |-> "getInheritedProps", baseClassName |-> baseClassName]
         /\ ret' = IF out.overflow THEN THROWN ELSE [kind |-> "list", items |-> out.items]
         /\ basePropsCache' = out.cache
         /\ log' = out.logged
         /\ UNCHANGED <<fs, config>>

NextInherit == GenerateComponentDoc \/ GetInheritedProps

SpecInherit == InitInherit /\ [][NextInherit]_vars

(***************************************************************************)
(* The library of an inheritance run, read off the file system directly    *)
(***************************************************************************)
IsDoc == call.op = "generateComponentDoc" /\ ret # NULL
Logged(msg) == {d \in DOMAIN log : log[d].msg = msg}
NoErrorLogged == \A d \in DOMAIN log : log[d].level # "error"

\* the property bag written in the props file at path, NULL when there is none
BagAt(path) ==
  IF path \in DOMAIN fs THEN fs[path].data.sourcesContent.items[1].propsInfo ELSE NULL
TypeFile(name) ==
  LET i == CHOOSE x \in 1..MaxAncestors : TypeName(x) = name
  IN join(TypeDir(i), TypeStem(i) \o Ext_props)
BagOf(name) == IF name \in AncestorTypes THEN BagAt(TypeFile(name)) ELSE NULL
RootBag == BagAt(LibraryPath \o <<S_core, BaseComponentMap>>)
\* the root's property list as the generator can load it
RootList ==
  IF RootBag # NULL /\ RootBag.className = S_BaseProps THEN RootBag.props ELSE <<>>

\* the type names resolved in turn from a declared parent: each has a parsable
\* props file, or is the root; at most k of them
RECURSIVE Walk(_, _)
Walk(name, k) ==
  IF k = 0 \/ name = NoBase THEN <<>>
  ELSE IF name = S_BaseProps THEN <<name>>
  ELSE IF BagOf(name) = NULL THEN <<>>
  ELSE <<name>> \o Walk(BagOf(name).baseClass, k - 1)

\* the name at which the resolution from a declared parent stops without a
\* props file, NoBase when it does not stop that way within k steps
RECURSIVE StopsAt(_, _)
StopsAt(name, k) ==
  IF k = 0 \/ name = NoBase \/ name = S_BaseProps THEN NoBase
  ELSE IF name \notin AncestorTypes \/ TypeFile(name) \notin DOMAIN fs THEN name
  ELSE IF BagOf(name) = NULL THEN NoBase
  ELSE StopsAt(BagOf(name).baseClass, k - 1)

OwnBag == BagAt(join(ButtonPath, S_button \o Ext_props))
OwnBase == IF OwnBag # NULL THEN OwnBag.baseClass ELSE NoBase
OwnChain == Walk(OwnBase, MaxStack + 1)
Simple(chain) == \A a, b \in DOMAIN chain : a # b => chain[a] # chain[b]

Tagged(props, from) ==
  [i \in DOMAIN props |->
     [name |-> props[i].name, type |-> props[i].type, inherited |-> TRUE,
      inheritedFrom |-> from]]
PropsOfType(name) == IF name = S_BaseProps THEN RootList ELSE BagOf(name).props
RECURSIVE TaggedAlong(_)
TaggedAlong(chain) ==
  IF chain = <<>> THEN <<>>
  ELSE Tagged(PropsOfType(Head(chain)), Head(chain)) \o TaggedAlong(Tail(chain))

\* the exclusion policy of the configuration, applied to a property list
Retained(props) ==
  SelectSeq(props, LAMBDA p :
    /\ p.name \notin config.documentation.excludeProps
    /\ ~(p.inherited /\ p.name \in config.documentation.excludeInheritedProps))

\* C3: in every document returned by generateComponentDoc every property with
\* inherited = false comes before every property with inherited = true.
C3_OwnBeforeInherited ==
  IsDoc =>
    \A i, j \in DOMAIN ret.props :
      (~ret.props[i].inherited /\ ret.props[j].inherited) => i < j

C3_Witness ==
  /\ IsDoc
  /\ Len(OwnChain) >= 2
  /\ \E i, j \in DOMAIN ret.props : ~ret.props[i].inherited /\ ret.props[j].inherited
  /\ Len(ret.props) < Len(OwnProps) + Len(TaggedAlong(OwnChain))

\* C4: within the inherited properties of a document, for a chain of distinct
\* ancestors base1 -> base2 -> ..., every property tagged base_i comes before
\* every property tagged base_j when i < j.
C4_NearerBeforeFarther ==
  (IsDoc /\ Simple(OwnChain)) =>
    \A i, j \in DOMAIN OwnChain :
      i < j =>
        \A a, b \in DOMAIN ret.props :
          (/\ ret.props[a].inherited /\ ret.props[a].inheritedFrom = OwnChain[i]
           /\ ret.props[b].inherited /\ ret.props[b].inheritedFrom = OwnChain[j])
          => a < b

C4_Witness ==
  /\ IsDoc
  /\ Simple(OwnChain)
  /\ Len(OwnChain) = 3
  /\ \A k \in DOMAIN OwnChain :
       \E a \in DOMAIN ret.props :
         ret.props[a].inherited /\ ret.props[a].inheritedFrom = OwnChain[k]

\* C5: every inherited property of a document is tagged with a type name that
\* lies on the chain of resolved ancestors starting at the document's baseClass.
C5_OriginOnChain ==
  IsDoc =>
    /\ ret.baseClass = OwnBase
    /\ \A a \in DOMAIN ret.props :
         ret.props[a].inherited =>
           \E k \in DOMAIN OwnChain : ret.props[a].inheritedFrom = OwnChain[k]

C5_Witness ==
  /\ IsDoc
  /\ Len(OwnChain) = 2
  /\ OwnChain[2] # S_BaseProps
  /\ \E a \in DOMAIN ret.props : ret.props[a].inheritedFrom = OwnChain[2]

\* C6: when an ancestor type name at any depth matches no props file, the
\* resolution stops there without an error: the document holds the own
\* properties and the inherited properties of the nearer, resolved ancestors
\* (as far as the exclusion policy keeps them) and nothing else; resolving the
\* unmatched name itself yields no properties.
C6_UnresolvedTruncates ==
  /\ (call.op = "generateComponentDoc" /\ Simple(OwnChain)
      /\ StopsAt(OwnBase, MaxStack + 1) # NoBase)
       => /\ ret # NULL
          /\ ret.props = Retained(OwnBag.props \o TaggedAlong(OwnChain))
          /\ NoErrorLogged
          /\ \E d \in Logged("Could not find props file for parent class") :
               log[d].about = StopsAt(OwnBase, MaxStack + 1)
  /\ (call.op = "getInheritedProps" /\ StopsAt(call.baseClassName, 1) # NoBase)
       => ret = [kind |-> "list", items |-> <<>>] /\ NoErrorLogged

C6_Witness ==
  /\ IsDoc
  /\ OwnChain = <<TypeName(1), TypeName(2)>>
  /\ StopsAt(OwnBase, MaxStack + 1) = C_GhostProps
  /\ Len(ret.props) = Len(OwnProps) + Len(TypeProps(1)) + Len(TypeProps(2))

\* C7: resolving 'BaseProps' returns the root property list with every entry
\* tagged inherited = true and inheritedFrom = 'BaseProps', without any file
\* name search and without recursion; a document whose chain reaches the root
\* ends with the root's properties.
C7_RootTerminal ==
  /\ (call.op = "getInheritedProps" /\ call.baseClassName = S_BaseProps)
       => /\ ret = [kind |-> "list", items |-> Tagged(RootList, S_BaseProps)]
          /\ Logged("Resolving parent") = {}
  /\ (IsDoc /\ Simple(OwnChain) /\ OwnChain # <<>>
      /\ OwnChain[Len(OwnChain)] = S_BaseProps)
       => /\ LET tail == Retained(Tagged(RootList, S_BaseProps))
             IN /\ Len(ret.props) >= Len(tail)
                /\ SubSeq(ret.props, Len(ret.props) - Len(tail) + 1, Len(ret.props)) = tail
          /\ Cardinality(Logged("Resolving parent")) = Len(OwnChain) - 1

C7_Witness ==
  /\ call.op = "getInheritedProps"
  /\ call.baseClassName = S_BaseProps
  /\ RootList # <<>>
  /\ ret = [kind |-> "list", items |-> Tagged(RootList, S_BaseProps)]

(***************************************************************************)
(* DocumentationGenerator: component discovery                            *)
(***************************************************************************)
\* a directory whose listing cannot be read: readdirSync throws on it
LockedDir == [kind |-> "locked"]
\* Dirent.isDirectory() of the entry at path
direntIsDirectory(path) == existsSync(path) /\ fs[path].kind \in {"dir", "locked"}

Alias(aliasName, sourceComponent) ==
  [aliasName |-> aliasName, sourceComponent |-> sourceComponent]
\* an entry of the components list; aliasOf is Undefined for a walked directory
Component(path, category, aliasOf) ==
  [path |-> path, category |-> category, aliasOf |-> aliasOf]
AliasOf(sourceComponent) == [defined |-> TRUE, items |-> sourceComponent]
Components(items) == [kind |-> "list", items |-> items]
\* the outcome of a walk: whether readdirSync threw, and the list so far
Walked(thrown, components) == [thrown |-> thrown, components |-> components]

\* faulty variant: any entry at all makes the directory a component
hasComponentFilesAnyEntry(dirPath) == fs[dirPath].entries # <<>>

\* items.some(item => item.isFile() && (name ends with '.component.js.map' or
\* '.props.js.map'))
hasComponentFiles(dirPath) ==
  \E k \in DOMAIN fs[dirPath].entries :
    LET name == fs[dirPath].entries[k]
    IN /\ isFile(join(dirPath, name))
       /\ (endsWith(name, Ext_component) \/ endsWith(name, Ext_props))

\* faulty variant: every component directory is retained
includeComponentsIncludesAny(componentName) == TRUE

\* this.config.includeComponents.includes(componentName)
includeComponentsIncludes(componentName) == componentName \in config.includeComponents

\* faulty variant: no directory name is skipped
skippedNever(name) == FALSE

\* item.name.startsWith('.') || item.name === 'node_modules'
skipped(name) == startsWith(name, S_dot) \/ name = S_node_modules

RECURSIVE findComponentsInDir(_, _, _)
RECURSIVE recurseIntoSubdirectories(_, _, _, _)

\* the loop over items of findComponentsInDir, from item i on
recurseIntoSubdirectories(dirPath, category, components, i) ==
  IF i > Len(fs[dirPath].entries) THEN Walked(FALSE, components)
  ELSE LET name == fs[dirPath].entries[i]
       IN IF ~direntIsDirectory(join(dirPath, name)) \/ skipped(name)
          THEN recurseIntoSubdirectories(dirPath, category, components, i + 1)
          ELSE LET sub == findComponentsInDir(join(dirPath, name), category, components)
               IN IF sub.thrown THEN sub
                  ELSE recurseIntoSubdirectories(dirPath, category, sub.components, i + 1)

findComponentsInDir(dirPath, category, components) ==
  IF ~isDirectory(dirPath) THEN Walked(TRUE, components)
  ELSE LET componentName == basename(dirPath)
           pushed == IF hasComponentFiles(dirPath) /\ includeComponentsIncludes(componentName)
                     THEN Append(components, Component(dirPath, category, Undefined))
                     ELSE components
       IN recurseIntoSubdirectories(dirPath, category, pushed, 1)

\* the directory names under categoriesPath that are not excluded categories
categoriesUnder(categoriesPath) ==
  SelectSeq(fs[categoriesPath].entries, LAMBDA name :
    direntIsDirectory(join(categoriesPath, name)) /\ name \notin config.excludeCategories)

\* the loop over categories of findAllComponents, from category i on
RECURSIVE walkCategories(_, _, _, _)
walkCategories(categoriesPath, categories, i, components) ==
  IF i > Len(categories) THEN Walked(FALSE, components)
  ELSE LET sub == findComponentsInDir(join(categoriesPath, categories[i]), categories[i],
                                      components)
       IN IF sub.thrown THEN sub
          ELSE walkCategories(categoriesPath, categories, i + 1, sub.components)

\* components.find(c => path.basename(c.path) === sourceComponent): its index, 0 if none
findSource(components, sourceComponent) ==
  LET hits == {k \in DOMAIN components : basename(components[k].path) = sourceComponent}
  IN IF hits = {} THEN 0 ELSE CHOOSE k \in hits : \A h \in hits : k <= h

\* the loop over Object.entries(componentAliases), from entry i on
RECURSIVE addAliases(_, _, _, _)
addAliases(aliases, i, components, logged) ==
  IF i > Len(aliases) THEN Outcome(Components(components), logged)
  ELSE LET source == findSource(components, aliases[i].sourceComponent)
       IN IF source # 0
          THEN addAliases(aliases, i + 1,
                          Append(components,
                                 Component(components[source].path, components[source].category,
                                           AliasOf(aliases[i].sourceComponent))),
                          logged)
          ELSE addAliases(aliases, i + 1, components,
                          Append(logged, Diag("warn", "Alias source component not found",
                                              aliases[i])))

findAllComponents ==
  LET categoriesPath == join(LibraryPath, S_components)
  IN IF ~existsSync(categoriesPath)
     THEN Outcome(Components(<<>>),
                  <<Diag("error", "Components path not found", categoriesPath)>>)
     ELSE IF ~isDirectory(categoriesPath) THEN Outcome(THROWN, <<>>)
     ELSE LET walked == walkCategories(categoriesPath, categoriesUnder(categoriesPath), 1, <<>>)
          IN IF walked.thrown THEN Outcome(THROWN, <<>>)
             ELSE addAliases(config.componentAliases, 1, walked.components, <<>>)

(***************************************************************************)
(* Discovery runs: a library with the category basic, an excluded         *)
(* category, a hidden category, and component directories of every kind   *)
(***************************************************************************)
S_icon == <<"i","c","o","n">>
S_anchor == <<"a","n","c","h","o","r">>
S_select == <<"s","e","l","e","c","t">>
S_selectlocale == S_select \o <<"l","o","c","a","l","e">>
S_dropdown == <<"d","r","o","p","d","o","w","n">>
S_widget == <<"w","i","d","g","e","t">>
S_page == <<"p","a","g","e">>
S_git == <<".","g","i","t">>
S_cache == <<".","c","a","c","h","e">>

\* what a component directory holds: nothing, one declaration file, a styles
\* file only, or a directory that is named like a props file
Holdings == {"none", "props", "component", "styles", "propsdir", "malformed"}
Holding(name, v) ==
  CASE v = "none" -> <<>>
    [] v = "props" -> <<name \o Ext_props>>
    [] v = "component" -> <<name \o Ext_component>>
    [] v = "styles" -> <<name \o Ext_styles>>
    [] v = "propsdir" -> <<name \o Ext_props>>
    [] v = "malformed" -> <<name \o Ext_props>>

\* the directory at path named name with holding v and the subdirectories subs
ComponentDir(path, name, v, subs) ==
  {<<path, DirNode(Holding(name, v) \o subs)>>}
  \cup (IF v = "none" THEN {}
        ELSE {<<join(path, Holding(name, v)[1]),
                IF v = "propsdir" THEN DirNode(<<>>)
                ELSE IF v = "malformed" THEN FileNode(InvalidJson)
                ELSE IF v = "component" THEN ButtonComponentFile
                ELSE IF v = "props"
                THEN OneSource(TsSource(PropsInfo(name, OwnProps, NoBase), NULL, NULL))
                ELSE OneSource(TsSource(NULL, NULL, NULL))>>})

Layouts ==
  [root : {"dir"}, button : Holdings, icon : {"absent", "none", "props"},
   basic : {"none", "props"}, widget : {"absent", "props", "locked"},
   hidden : BOOLEAN, modules : BOOLEAN, page : BOOLEAN, cache : BOOLEAN]
  \cup [root : {"missing"}, button : {"none"}, icon : {"absent"}, basic : {"none"},
        widget : {"absent"}, hidden : {FALSE}, modules : {FALSE}, page : {FALSE},
        cache : {FALSE}]

Opt(present, items) == IF present THEN items ELSE <<>>

DiscoverFs(l) ==
  LET componentsDir == join(LibraryPath, S_components)
      basicDir == join(componentsDir, S_basic)
      buttonDir == join(basicDir, S_button)
      at(dir, name, v) == ComponentDir(join(dir, name), name, v, <<>>)
      under(present, dir, name) ==
        IF present
        THEN {<<join(dir, name), DirNode(<<S_anchor>>)>>}
             \cup at(join(dir, name), S_anchor, "props")
        ELSE {}
      category(present, name) ==
        IF present
        THEN {<<join(componentsDir, name), DirNode(<<S_select>>)>>}
             \cup at(join(componentsDir, name), S_select, "props")
        ELSE {}
  IN IF l.root = "missing" THEN MakeFs({<<LibraryPath, DirNode(<<S_core>>)>>,
                                        <<join(LibraryPath, S_core), DirNode(<<>>)>>})
     ELSE MakeFs(
       {<<LibraryPath, DirNode(<<S_components, S_core>>)>>,
        <<join(LibraryPath, S_core), DirNode(<<>>)>>,
        <<componentsDir,
          DirNode(Opt(l.cache, <<S_cache>>) \o <<S_basic, S_button \o S_js>>
                  \o Opt(l.page, <<S_page>>))>>,
        <<join(componentsDir, S_button \o S_js), FileNode(InvalidJson)>>}
       \cup category(l.cache, S_cache) \cup category(l.page, S_page)
       \cup ComponentDir(basicDir, S_basic, l.basic,
                         Opt(l.hidden, <<S_git>>) \o <<S_button>>
                         \o Opt(l.modules, <<S_node_modules>>)
                         \o Opt(l.widget # "absent", <<S_widget>>))
       \cup ComponentDir(buttonDir, S_button, l.button, Opt(l.icon # "absent", <<S_icon>>))
       \cup (IF l.icon = "absent" THEN {} ELSE at(buttonDir, S_icon, l.icon))
       \cup under(l.hidden, basicDir, S_git)
       \cup under(l.modules, basicDir, S_node_modules)
       \cup (IF l.widget = "props" THEN at(basicDir, S_widget, "props")
             ELSE IF l.widget = "locked" THEN {<<join(basicDir, S_widget), LockedDir>>}
             ELSE {}))

\* no aliases, the alias of DEFAULT_CONFIG, and two aliases of one source next
\* to an alias of a component that is not in the allow-list
AliasMaps ==
  {<<>>,
   <<Alias(S_selectlocale, S_select)>>,
   <<Alias(S_selectlocale, S_button), Alias(S_dropdown, S_button), Alias(S_caption, S_widget)>>}
\* componentOverrides[component] = { excludeProps, excludeMethods, excludeStyleClasses }
Override(component, excludeProps, excludeMethods, excludeStyleClasses) ==
  [component |-> component, excludeProps |-> excludeProps,
   excludeMethods |-> excludeMethods, excludeStyleClasses |-> excludeStyleClasses]
\* overrides for a source component and for one of its alias names
AliasOverrides ==
  Documentation({}, {}, {}, {},
                <<Override(S_button, {S_caption}, {}, {}),
                  Override(S_selectlocale, {S_name}, {}, {})>>)
DiscoverConfigs ==
  {Config({S_button, S_icon, S_anchor, S_select}, <<>>, aliases,
          {S_node_modules, S_git, S_page}, documentation) :
     aliases \in AliasMaps, documentation \in {NoExclusions, AliasOverrides}}

InitDiscover ==
  /\ \E l \in Layouts : fs = DiscoverFs(l)
  /\ config \in DiscoverConfigs
  /\ basePropsCache = NULL
  /\ call = NoCall
  /\ ret = NULL
  /\ log = <<>>

FindAllComponents ==
  \E out \in {findAllComponents} :
    /\ call' = [op |-> "findAllComponents"]
    /\ ret' = out.value
    /\ log' = out.logged
    /\ UNCHANGED <<fs, config, basePropsCache>>


\* the call returned a list
IsList == call.op = "findAllComponents" /\ ret # THROWN
Returned(path) == \E k \in DOMAIN ret.items : ret.items[k].path = path
\* the directory at path holds a file ending in .props.js.map or .component.js.map
HoldsDeclaration(path) ==
  \E name \in Range(fs[path].entries) :
    /\ fs[join(path, name)].kind = "file"
    /\ \E ext \in {Ext_props, Ext_component} :
         Len(name) >= Len(ext) /\ \A i \in DOMAIN ext : name[Len(name) - Len(ext) + i] = ext[i]
BasicPath == LibraryPath \o <<S_components, S_basic>>

\* C9: no entry of the list returned by findAllComponents is a directory that
\* holds neither a file ending in '.props.js.map' nor one ending in
\* '.component.js.map', whatever its name and wherever it lies.
C9_NoDeclarationNoCandidate ==
  IsList =>
    /\ \A k \in DOMAIN ret.items : HoldsDeclaration(ret.items[k].path)
    /\ \A p \in DOMAIN fs :
         (fs[p].kind = "dir" /\ ~HoldsDeclaration(p)) => ~Returned(p)

C9_Witness ==
  /\ IsList
  /\ ButtonPath \in DOMAIN fs
  /\ fs[ButtonPath].entries # <<>>
  /\ ~HoldsDeclaration(ButtonPath)
  /\ basename(ButtonPath) \in config.includeComponents
  /\ ~Returned(ButtonPath)
  /\ Returned(join(ButtonPath, S_icon))

UnderSkippedName(path) ==
  \E k \in 3..Len(path) : path[k][1] = "." \/ path[k] = S_node_modules

\* C11: no entry returned by findAllComponents lies in or under a hidden
\* directory or a node_modules directory at any level below components.
C11_Original ==
  IsList => \A k \in DOMAIN ret.items : ~UnderSkippedName(ret.items[k].path)

\* C11, below the category level: no returned entry lies in or under a hidden
\* or node_modules directory that is nested inside a category directory.
C11_NestedSkipped ==
  IsList =>
    \A k \in DOMAIN ret.items :
      \A j \in 4..Len(ret.items[k].path) :
        ret.items[k].path[j][1] # "." /\ ret.items[k].path[j] # S_node_modules

C11_Witness ==
  /\ IsList
  /\ LibraryPath \o <<S_components, S_basic, S_git, S_anchor>> \in DOMAIN fs
  /\ LibraryPath \o <<S_components, S_basic, S_node_modules, S_anchor>> \in DOMAIN fs
  /\ Returned(ButtonPath)

(***************************************************************************)
(* DocumentationGenerator: generateDocForAlias and generateAllDocs         *)
(***************************************************************************)
S_AliasOf == <<"A","l","i","a","s"," ","o","f"," ">>

\* faulty variant: the description names the alias itself
aliasDocSelfDescribed(aliasName, sourceComponentPath, sourceDoc) ==
  [kind |-> "doc",
   componentName |-> aliasName,
   componentPath |-> sourceComponentPath,
   category |-> sourceDoc.category,
   props |-> sourceDoc.props,
   methods |-> sourceDoc.methods,
   events |-> sourceDoc.events,
   styles |-> sourceDoc.styles,
   baseClass |-> sourceDoc.baseClass,
   children |-> sourceDoc.children,
   description |-> S_AliasOf \o aliasName]

\* { ...sourceDoc, componentName: aliasName, componentPath, description }
aliasDoc(aliasName, sourceComponentPath, sourceDoc) ==
  [kind |-> "doc",
   componentName |-> aliasName,
   componentPath |-> sourceComponentPath,
   category |-> sourceDoc.category,
   props |-> sourceDoc.props,
   methods |-> sourceDoc.methods,
   events |-> sourceDoc.events,
   styles |-> sourceDoc.styles,
   baseClass |-> sourceDoc.baseClass,
   children |-> sourceDoc.children,
   description |-> S_AliasOf \o sourceDoc.componentName]

\* if (!sourceDoc) return null; else the renamed copy
renamed(aliasName, sourceComponentPath, generated) ==
  IF generated.value = NULL THEN generated
  ELSE Generated(aliasDoc(aliasName, sourceComponentPath, generated.value),
                 generated.cache, generated.logged)

generateDocForAlias(aliasName, sourceComponentPath, category, cache, cut) ==
  renamed(aliasName, sourceComponentPath,
          generateComponentDoc(sourceComponentPath, category, cache, cut))

\* faulty variant: the last alias entry with this source
aliasEntryOfLast(aliasOf) ==
  LET hits == {k \in DOMAIN config.componentAliases :
                 config.componentAliases[k].sourceComponent = aliasOf}
  IN IF hits = {} THEN 0 ELSE CHOOSE k \in hits : \A h \in hits : k >= h

\* Object.entries(componentAliases).find(([_, source]) => source === aliasOf):
\* the index of the entry, 0 when there is none
aliasEntryOf(aliasOf) ==
  LET hits == {k \in DOMAIN config.componentAliases :
                 config.componentAliases[k].sourceComponent = aliasOf}
  IN IF hits = {} THEN 0 ELSE CHOOSE k \in hits : \A h \in hits : k <= h

\* console.log before the generation of one component
announced(about, generated) ==
  Generated(generated.value, generated.cache,
            <<Diag("log", "Generating docs", about)>> \o generated.logged)

\* the body of the loop of generateAllDocs for an alias entry
generateAliasEntry(component, entry, cache, cut) ==
  IF entry = 0 THEN Generated(NULL, cache, <<>>)
  ELSE announced(config.componentAliases[entry].aliasName,
                 generateDocForAlias(config.componentAliases[entry].aliasName,
                                     component.path, component.category, cache, cut))

\* the body of the loop of generateAllDocs for one entry of the list
generateEntry(component, cache, cut) ==
  IF component.aliasOf.defined
  THEN generateAliasEntry(component, aliasEntryOf(component.aliasOf.items), cache, cut)
  ELSE announced(basename(component.path),
                 generateComponentDoc(component.path, component.category, cache, cut))

RECURSIVE generateEntries(_, _, _, _)
\* faulty variant: an entry without a document ends the loop
entryThenRestStopping(components, i, cut, one) ==
  IF one.value = NULL THEN Generated(<<>>, one.cache, one.logged)
  ELSE withChild(one, generateEntries(components, i + 1, one.cache, cut))

entryThenRest(components, i, cut, one) ==
  withChild(one, generateEntries(components, i + 1, one.cache, cut))

\* the loop of generateAllDocs, from entry i on
generateEntries(components, i, cache, cut) ==
  IF i > Len(components) THEN Generated(<<>>, cache, <<>>)
  ELSE entryThenRest(components, i, cut, generateEntry(components[i], cache, cut))

\* what generateAllDocs gives back: whether it threw, the docs, the cache
\* afterwards and the console output
AllDocs(thrown, docs, cache, logged) ==
  [thrown |-> thrown, docs |-> docs, cache |-> cache, logged |-> logged]

docsOf(found, generated) ==
  AllDocs(FALSE, generated.value, generated.cache,
          found.logged \o <<Diag("log", "Found components", Len(found.value.items))>>
            \o generated.logged)

docsFrom(cache, cut, found) ==
  IF found.value = THROWN THEN AllDocs(TRUE, <<>>, cache, found.logged)
  ELSE docsOf(found, generateEntries(found.value.items, 1, cache, cut))

generateAllDocs(cache, cut) == docsFrom(cache, cut, findAllComponents)

Docs(items) == [kind |-> "docs", items |-> items]

GenerateAllDocs ==
  \E out \in {generateAllDocs(basePropsCache, MaxStack)} :
    /\ call' = [op |-> "generateAllDocs"]
    /\ ret' = IF out.thrown THEN THROWN ELSE Docs(out.docs)
    /\ basePropsCache' = out.cache
    /\ log' = out.logged
    /\ UNCHANGED <<fs, config>>

NextDiscover == FindAllComponents \/ GenerateAllDocs

SpecDiscover == InitDiscover /\ [][NextDiscover]_vars

\* generateAllDocs returned a list of documents
IsDocs == call.op = "generateAllDocs" /\ ret # THROWN
\* the directories the walk retains, read off the file system: below a
\* category that is not excluded, not inside a skipped directory, holding a
\* declaration file, with an allow-listed name
Discoverable(p) ==
  /\ Len(p) >= 3
  /\ SubSeq(p, 1, 2) = LibraryPath \o <<S_components>>
  /\ fs[p].kind = "dir"
  /\ p[3] \notin config.excludeCategories
  /\ \A j \in 4..Len(p) : p[j][1] # "." /\ p[j] # S_node_modules
  /\ HoldsDeclaration(p)
  /\ p[Len(p)] \in config.includeComponents
SourceDiscovered(name) == \E p \in DOMAIN fs : Discoverable(p) /\ p[Len(p)] = name
PairsOf(name) ==
  {a \in DOMAIN config.componentAliases : config.componentAliases[a].sourceComponent = name}
AliasEntriesOf(name) ==
  {k \in DOMAIN ret.items :
     ret.items[k].aliasOf.defined /\ ret.items[k].aliasOf.items = name}

\* C12, the candidates: for every alias pair whose source the walk retained,
\* findAllComponents adds one alias entry with the path and category of an
\* entry of that source.
C12_AliasCandidates ==
  IsList =>
    \A a \in DOMAIN config.componentAliases :
      LET name == config.componentAliases[a].sourceComponent
      IN SourceDiscovered(name) =>
           /\ Cardinality(AliasEntriesOf(name)) = Cardinality(PairsOf(name))
           /\ \A k \in AliasEntriesOf(name) :
                \E s \in DOMAIN ret.items :
                  /\ ~ret.items[s].aliasOf.defined
                  /\ Discoverable(ret.items[s].path)
                  /\ ret.items[s].path = ret.items[k].path
                  /\ ret.items[s].category = ret.items[k].category

\* the walk retained the component name and a document of its own was generated
SourceDocumented(name) ==
  /\ SourceDiscovered(name)
  /\ \E s \in DOMAIN ret.items :
       ret.items[s].componentName = name /\ "description" \notin DOMAIN ret.items[s]

\* C12, the documents as claimed: for every alias pair whose source the walk
\* retained and which has a document, generateAllDocs returns a document named
\* by the pair's alias name.
C12_Original ==
  IsDocs =>
    \A a \in DOMAIN config.componentAliases :
      SourceDocumented(config.componentAliases[a].sourceComponent) =>
        \E d \in DOMAIN ret.items :
          ret.items[d].componentName = config.componentAliases[a].aliasName

\* C12, the documents as generated: every alias pair of a retained source
\* that has a document yields one document, and each of them is named by the
\* first alias name configured for that source.
C12_FirstAliasName ==
  IsDocs =>
    \A a \in DOMAIN config.componentAliases :
      LET name == config.componentAliases[a].sourceComponent
          first == CHOOSE k \in PairsOf(name) : \A h \in PairsOf(name) : k <= h
      IN SourceDocumented(name) =>
           Cardinality({d \in DOMAIN ret.items :
                          ret.items[d].componentName = config.componentAliases[first].aliasName})
             = Cardinality(PairsOf(name))

C12_Witness ==
  /\ IsDocs
  /\ SourceDiscovered(S_button)
  /\ Cardinality(PairsOf(S_button)) = 2
  /\ Cardinality({d \in DOMAIN ret.items : ret.items[d].componentName = S_selectlocale}) = 2

IsAliasDoc(doc) == "description" \in DOMAIN doc
\* the property list written in the props file of the directory at path
DeclaredProps(path) ==
  LET file == join(path, basename(path) \o Ext_props)
  IN IF file \in DOMAIN fs /\ fs[file].kind = "file" THEN BagAt(file).props ELSE <<>>
\* the names the configuration removes from the properties of component name
RemovedFor(name) ==
  UNION {config.documentation.componentOverrides[i].excludeProps :
           i \in {k \in DOMAIN config.documentation.componentOverrides :
                    config.documentation.componentOverrides[k].component = name}}

S_container == <<"c","o","n","t","a","i","n","e","r">>
S_tabs == <<"t","a","b","s">>
S_tabpane == <<"t","a","b","p","a","n","e">>
S_tabheader == <<"t","a","b","h","e","a","d","e","r">>
S_title == <<"t","i","t","l","e">>
S_open == <<"o","p","e","n">>
S_app_tabs == <<"a","p","p","-","t","a","b","s">>

\* MethodInfo as TypeScriptParser.extractMethods yields it
Method(name) == [name |-> name]

TabsPath == LibraryPath \o <<S_components, S_container, S_tabs>>
ChildPath(name) == join(TabsPath, name)
ChildNames == <<S_tabpane, S_tabheader>>
ChildStates == {"absent", "empty", "props", "component", "file"}

\* the directory of child name in state st, as <<path, node>> pairs
ChildDir(name, st) ==
  CASE st = "absent" -> {}
    [] st = "empty" -> {<<ChildPath(name), DirNode(<<>>)>>}
    [] st = "file" -> {<<ChildPath(name), FileNode(InvalidJson)>>}
    [] st = "props" ->
         {<<ChildPath(name), DirNode(<<name \o Ext_props>>)>>,
          <<join(ChildPath(name), name \o Ext_props),
            OneSource(TsSource(PropsInfo(name, <<Prop(S_title, S_string)>>, NoBase),
                               NULL, NULL))>>}
    [] st = "component" ->
         {<<ChildPath(name), DirNode(<<name \o Ext_component>>)>>,
          <<join(ChildPath(name), name \o Ext_component),
            OneSource(TsSource(NULL, MethodsInfo(<<Method(S_open)>>), NULL))>>}

ChildrenFs(states) ==
  LET present == {i \in DOMAIN ChildNames : states[i] # "absent"}
  IN MakeFs(
       {<<LibraryPath, DirNode(<<S_components>>)>>,
        <<join(LibraryPath, S_components), DirNode(<<S_container>>)>>,
        <<LibraryPath \o <<S_components, S_container>>, DirNode(<<S_tabs>>)>>,
        <<TabsPath,
          DirNode(Keep(ChildNames, {ChildNames[i] : i \in present})
                  \o <<S_tabs \o Ext_component, S_tabs \o Ext_props, S_tabs \o Ext_styles>>)>>,
        <<join(TabsPath, S_tabs \o Ext_props),
          OneSource(TsSource(PropsInfo(S_tabs, OwnProps, NoBase), NULL, NULL))>>,
        <<join(TabsPath, S_tabs \o Ext_component),
          OneSource(TsSource(NULL, MethodsInfo(<<Method(S_open)>>), NULL))>>,
        <<join(TabsPath, S_tabs \o Ext_styles),
          OneSource(TsSource(NULL, NULL, StyleInfo(S_app_tabs, <<S_app_tabs>>)))>>}
       \cup UNION {ChildDir(ChildNames[i], states[i]) : i \in DOMAIN ChildNames})

\* no child map, the two children in either order, and a child with a child
\* map of its own
ChildMaps ==
  {<<>>,
   <<ChildMap(S_tabs, <<Child(S_tabpane, <<S_dot, S_tabpane>>),
                        Child(S_tabheader, <<S_dot, S_tabheader>>)>>)>>,
   <<ChildMap(S_tabs, <<Child(S_tabheader, <<S_dot, S_tabheader>>),
                        Child(S_tabpane, <<S_dot, S_tabpane>>)>>)>>,
   <<ChildMap(S_tabs, <<Child(S_tabpane, <<S_dot, S_tabpane>>),
                        Child(S_tabheader, <<S_dot, S_tabheader>>)>>),
     ChildMap(S_tabpane, <<Child(S_tabheader, <<S_dotdot, S_tabheader>>)>>)>>}

InitChildren ==
  /\ \E states \in [DOMAIN ChildNames -> ChildStates] : fs = ChildrenFs(states)
  /\ \E childComponents \in ChildMaps :
       config = Config({S_tabs}, childComponents, <<>>, {}, NoExclusions)
  /\ basePropsCache = NULL
  /\ call = NoCall
  /\ ret = NULL
  /\ log = <<>>

GenerateWithChildren ==
  \E componentPath \in {TabsPath, ChildPath(S_tabpane)}, category \in {S_container, S_basic} :
    \E out \in {generateComponentDoc(componentPath, category, basePropsCache, MaxStack)} :
      /\ call' = [op |-> "generateComponentDoc", componentPath |-> componentPath,
                  category |-> category]
      /\ ret' = out.value
      /\ basePropsCache' = out.cache
      /\ log' = out.logged
      /\ UNCHANGED <<fs, config>>

NextChildren == GenerateWithChildren

SpecChildren == InitChildren /\ [][NextChildren]_vars

\* the child entries configured for the component named name, read off config
DeclaredChildren(name) ==
  LET hits == {i \in DOMAIN config.childComponents : config.childComponents[i].parent = name}
  IN IF hits = {} THEN <<>>
     ELSE config.childComponents[CHOOSE i \in hits : TRUE].children
\* where a declared child of the component at path lies
ChildLocation(path, child) ==
  IF child.relativePath[1] = ".." THEN SubSeq(path, 1, Len(path) - 1) \o <<child.relativePath[2]>>
  ELSE path \o <<child.relativePath[2]>>
\* a directory with a props or a component source: it yields a document
YieldsDoc(path) == path \in DOMAIN fs /\ fs[path].kind = "dir" /\ HoldsDeclaration(path)
DeclaredMethods(path) ==
  LET file == join(path, basename(path) \o Ext_component)
  IN IF file \in DOMAIN fs
     THEN fs[file].data.sourcesContent.items[1].methodsInfo.methods ELSE <<>>
DeclaredStyles(path) ==
  LET file == join(path, basename(path) \o Ext_styles)
  IN IF file \in DOMAIN fs
     THEN <<[className |-> fs[file].data.sourcesContent.items[1].styleInfo.defaultClass,
             description |-> S_DefaultStyle]>>
     ELSE <<>>

\* the document of the directory at path by the single-component procedure,
\* with the documents of its declared children that yield one, in map order
RECURSIVE ExpectedDoc(_, _)
ExpectedDoc(path, category) ==
  LET declared == DeclaredChildren(basename(path))
      yielding == SelectSeq(declared, LAMBDA c : YieldsDoc(ChildLocation(path, c)))
      kids == [i \in DOMAIN yielding |-> ExpectedDoc(ChildLocation(path, yielding[i]), category)]
  IN [kind |-> "doc", componentName |-> basename(path), componentPath |-> path,
      category |-> category, props |-> DeclaredProps(path),
      methods |-> DeclaredMethods(path), events |-> <<>>, styles |-> DeclaredStyles(path),
      baseClass |-> NoBase,
      children |-> IF kids = <<>> THEN [defined |-> FALSE, items |-> <<>>]
                   ELSE [defined |-> TRUE, items |-> kids]]

IsParentDoc == call.op = "generateComponentDoc" /\ ret # NULL

\* C14: the children of a document are the documents of the declared children
\* that yield one, in the order of the child map, each the document the
\* single-component procedure gives for the child with the parent's category;
\* children is undefined when there is none.
C14_ChildrenInMapOrder ==
  IsParentDoc =>
    LET declared == DeclaredChildren(basename(call.componentPath))
        yielding == SelectSeq(declared, LAMBDA c :
                                YieldsDoc(ChildLocation(call.componentPath, c)))
    IN /\ ret.children.defined = (yielding # <<>>)
       /\ Len(ret.children.items) = Len(yielding)
       /\ \A i \in DOMAIN yielding :
            ret.children.items[i]
              = ExpectedDoc(ChildLocation(call.componentPath, yielding[i]), call.category)

C14_Witness ==
  /\ IsParentDoc
  /\ call.componentPath = TabsPath
  /\ call.category = S_basic
  /\ ret.children.defined
  /\ Len(ret.children.items) = 2
  /\ ret.children.items[1].componentName = S_tabpane
  /\ ret.children.items[2].componentName = S_tabheader
  /\ ret.children.items[1].children.defined
  /\ ret.children.items[1].category = S_basic

\* C15: when a declared child's path does not exist, or the child yields no
\* document, the parent's document is still returned with its own props,
\* methods and styles and with every declared child that yields a document;
\* a path that does not exist is reported by a warning.
C15_MissingChildOnly ==
  (/\ call.op = "generateComponentDoc"
   /\ call.componentPath = TabsPath
   /\ \E i \in DOMAIN DeclaredChildren(S_tabs) :
        ~YieldsDoc(ChildLocation(TabsPath, DeclaredChildren(S_tabs)[i])))
  => /\ ret # NULL
     /\ ret.props = DeclaredProps(TabsPath)
     /\ ret.methods = DeclaredMethods(TabsPath)
     /\ ret.styles = DeclaredStyles(TabsPath)
     /\ \A i \in DOMAIN DeclaredChildren(S_tabs) :
          LET at == ChildLocation(TabsPath, DeclaredChildren(S_tabs)[i])
          IN /\ YieldsDoc(at) <=>
                  \E k \in DOMAIN ret.children.items : ret.children.items[k].componentPath = at
             /\ at \notin DOMAIN fs <=>
                  \E d \in DOMAIN log :
                    log[d].msg = "Child component path not found" /\ log[d].about = at

C15_Witness ==
  /\ IsParentDoc
  /\ call.componentPath = TabsPath
  /\ Len(DeclaredChildren(S_tabs)) = 2
  /\ DeclaredChildren(S_tabs)[1].name = S_tabpane
  /\ ChildPath(S_tabpane) \notin DOMAIN fs
  /\ ret.children.defined
  /\ ret.children.items[1].componentPath = ChildPath(S_tabheader)
  /\ ret.props # <<>>

(***************************************************************************)
(* Filter runs: filterComponentDoc applied to documents with up to MaxLen  *)
(* properties under every combination of exclusion lists                   *)
(***************************************************************************)
S_render == <<"r","e","n","d","e","r">>
S_app_x == <<"a","p","p","-","x">>
S_onTap == <<"o","n","T","a","p">>

FilterProps ==
  {[name |-> n, type |-> S_string, inherited |-> i,
    inheritedFrom |-> IF i THEN S_BaseProps ELSE <<>>] :
     n \in {S_caption, S_name, S_id}, i \in BOOLEAN}
FilterChild ==
  [kind |-> "doc", componentName |-> S_tabpane, componentPath |-> ChildPath(S_tabpane),
   category |-> S_container, props |-> <<Prop(S_caption, S_string)>>,
   methods |-> <<Method(S_open)>>, events |-> <<>>, styles |-> <<>>, baseClass |-> NoBase,
   children |-> Undefined]
FilterDocs ==
  {[kind |-> "doc", componentName |-> S_tabs, componentPath |-> TabsPath,
    category |-> S_container, props |-> props, methods |-> methods,
    events |-> <<EventInfo(S_onTap, S_Function, <<"(",")">>)>>,
    styles |-> styles, baseClass |-> S_BaseProps, children |-> children] :
     props \in SeqsUpTo(FilterProps, MaxLen),
     methods \in {<<>>, <<Method(S_open), Method(S_render), Method(S_open)>>},
     styles \in {<<>>, <<Style(S_app_tabs, S_DefaultStyle), Style(S_app_x, <<>>)>>},
     children \in {Undefined, Defined(<<FilterChild>>)}}
FilterOverrides ==
  {<<>>,
   <<Override(S_tabs, {S_id}, {S_render}, {S_app_tabs})>>,
   <<Override(S_tabpane, {S_id}, {S_render}, {S_app_tabs})>>}
FilterConfigs ==
  {Config({S_tabs}, <<>>, <<>>, {}, Documentation(p, i, m, s, o)) :
     p \in {{}, {S_caption}}, i \in {{}, {S_name}}, m \in {{}, {S_open}},
     s \in {{}, {S_app_x}}, o \in FilterOverrides}

InitFilter ==
  /\ fs = MakeFs({<<LibraryPath, DirNode(<<>>)>>})
  /\ config \in FilterConfigs
  /\ basePropsCache = NULL
  /\ call \in {[op |-> "none", doc |-> doc] : doc \in FilterDocs}
  /\ ret = NULL
  /\ log = <<>>

\* filterComponentDoc applied to a document
FilterComponentDoc ==
  /\ call.op = "none"
  /\ call' = [op |-> "filterComponentDoc", doc |-> call.doc]
  /\ ret' = filterComponentDoc(call.doc)
  /\ UNCHANGED <<fs, config, basePropsCache, log>>

\* filterComponentDoc applied to a document it returned
FilterAgain ==
  /\ call.op = "filterComponentDoc"
  /\ call' = [op |-> "filterAgain", doc |-> ret]
  /\ ret' = filterComponentDoc(ret)
  /\ UNCHANGED <<fs, config, basePropsCache, log>>

NextFilter == FilterComponentDoc \/ FilterAgain

SpecFilter == InitFilter /\ [][NextFilter]_vars

IsFiltered == call.op = "filterComponentDoc"
\* the names componentOverrides[name] lists under list, none without an entry
OverrideNames(name, list) ==
  UNION {config.documentation.componentOverrides[i][list] :
           i \in {k \in DOMAIN config.documentation.componentOverrides :
                    config.documentation.componentOverrides[k].component = name}}

\* C16: filterComponentDoc drops a property exactly when its name is in
\* excludeProps, or it is inherited and its name is in excludeInheritedProps,
\* or its name is in the excludeProps override of the document's component;
\* an own property named only in excludeInheritedProps is kept, and the kept
\* properties keep their order.
C16_PropsDroppedIff ==
  IsFiltered =>
    /\ ret.props
         = SelectSeq(call.doc.props, LAMBDA p :
             ~(\/ p.name \in config.documentation.excludeProps
               \/ (p.inherited /\ p.name \in config.documentation.excludeInheritedProps)
               \/ p.name \in OverrideNames(call.doc.componentName, "excludeProps")))
    /\ \A i \in DOMAIN call.doc.props :
         (/\ ~call.doc.props[i].inherited
          /\ call.doc.props[i].name \notin config.documentation.excludeProps
          /\ call.doc.props[i].name \notin OverrideNames(call.doc.componentName, "excludeProps"))
         => \E k \in DOMAIN ret.props : ret.props[k] = call.doc.props[i]

C16_Witness ==
  /\ IsFiltered
  /\ config.documentation.excludeInheritedProps = {S_name}
  /\ Len(call.doc.props) = 2
  /\ call.doc.props[1].name = S_name /\ call.doc.props[1].inherited
  /\ call.doc.props[2].name = S_name /\ ~call.doc.props[2].inherited
  /\ ret.props = <<call.doc.props[2]>>

\* C17: filterComponentDoc drops a method exactly when its name is in
\* excludeMethods or in the excludeMethods override of the document's
\* component, and a style class exactly when its class name is in
\* excludeStyleClasses or in that component's excludeStyleClasses override;
\* the overrides of other components have no effect.
C17_MethodsAndStylesDroppedIff ==
  IsFiltered =>
    /\ ret.methods
         = SelectSeq(call.doc.methods, LAMBDA m :
             /\ m.name \notin config.documentation.excludeMethods
             /\ m.name \notin OverrideNames(call.doc.componentName, "excludeMethods"))
    /\ ret.styles
         = SelectSeq(call.doc.styles, LAMBDA s :
             /\ s.className \notin config.documentation.excludeStyleClasses
             /\ s.className \notin OverrideNames(call.doc.componentName, "excludeStyleClasses"))

C17_Witness ==
  /\ IsFiltered
  /\ config.documentation.excludeMethods = {S_open}
  /\ config.documentation.componentOverrides
       = <<Override(S_tabpane, {S_id}, {S_render}, {S_app_tabs})>>
  /\ Len(call.doc.methods) = 3
  /\ ret.methods = <<Method(S_render)>>
  /\ Len(ret.styles) = 2

\* C18: filterComponentDoc applied to a document it returned gives that
\* document back unchanged.
C18_FilterIdempotent ==
  call.op = "filterAgain" => ret = call.doc

C18_Witness ==
  /\ call.op = "filterAgain"
  /\ config.documentation.excludeProps = {S_caption}
  /\ config.documentation.componentOverrides # <<>>
  /\ Len(ret.methods) = 1
  /\ Len(ret.props) = 1
  /\ Len(ret.styles) = 1

RECURSIVE IsSubsequence(_, _)
IsSubsequence(s, t) ==
  IF s = <<>> THEN TRUE
  ELSE IF t = <<>> THEN FALSE
  ELSE IF Head(s) = Head(t) THEN IsSubsequence(Tail(s), Tail(t))
  ELSE IsSubsequence(s, Tail(t))

\* C19: filterComponentDoc always returns a document; componentName,
\* componentPath, category, baseClass, events and children are those of its
\* argument, and props, methods and styles are what is left of the argument's
\* lists after removing entries, in the same order.
C19_FilterKeepsDocument ==
  IsFiltered =>
    /\ ret # NULL
    /\ ret.kind = "doc"
    /\ ret.componentName = call.doc.componentName
    /\ ret.componentPath = call.doc.componentPath
    /\ ret.category = call.doc.category
    /\ ret.baseClass = call.doc.baseClass
    /\ ret.events = call.doc.events
    /\ ret.children = call.doc.children
    /\ IsSubsequence(ret.props, call.doc.props)
    /\ IsSubsequence(ret.methods, call.doc.methods)
    /\ IsSubsequence(ret.styles, call.doc.styles)

C19_Witness ==
  /\ IsFiltered
  /\ ret.props = <<>>
  /\ Len(call.doc.props) = 2
  /\ ret.methods = <<>>
  /\ call.doc.methods # <<>>
  /\ ret.styles = <<>>
  /\ call.doc.styles # <<>>
  /\ ret.children.defined
  /\ ret.events # <<>>

(***************************************************************************)
(* Event runs: the component button with property bags that declare        *)
(* callbacks, a compiled button.component.js with event call sites, and a  *)
(* runtime module it imports                                               *)
(***************************************************************************)
S_onLoad == <<"o","n","L","o","a","d">>
S_tappable_component ==
  <<"t","a","p","p","a","b","l","e",".","c","o","m","p","o","n","e","n","t">>
T_handler == <<"(","e",")"," ","=",">"," ","v">>
P_event == <<"(","e",")">>
P_none == <<"(",")">>

\* an invokeEventCallback call site as TypeScriptParser.extractEventCallbacks yields it
CallSite(name, parameters) == [name |-> name, parameters |-> parameters]

EventProps ==
  {Prop(S_onTap, S_Function), Prop(S_onTap, T_handler), Prop(S_onLoad, S_Function),
   Prop(S_caption, S_string)}
EventRootProps == <<Prop(S_onTap, S_Function), Prop(S_name, S_string)>>
EventCallSites ==
  {CallSite(S_onTap, P_event), CallSite(S_onTap, P_none), CallSite(S_onLoad, P_none)}

ButtonJs == join(ButtonPath, S_button \o Ext_js)
TappableJs == LibraryPath \o <<S_core, S_tappable_component \o S_js>>
TappableImport == Import(S_runtime, <<S_core, S_tappable_component>>)

\* the compiled file of the component: none, a directory of that name, or a
\* file with up to MaxLen call sites that imports the runtime module or not
ButtonJsStates ==
  {[state |-> "absent"], [state |-> "directory"]}
  \cup {[state |-> "file", events |-> e, imports |-> i] :
          e \in SeqsUpTo(EventCallSites, MaxLen),
          i \in {<<>>, <<TappableImport>>}}
\* the imported runtime module: none, or a file with call sites
TappableStates ==
  {[state |-> "absent"]}
  \cup {[state |-> "file", events |-> e, imports |-> <<>>] :
          e \in {<<CallSite(S_onTap, P_none)>>,
                 <<CallSite(S_onLoad, P_event), CallSite(S_onLoad, P_none)>>}}

JsNode(path, st) ==
  CASE st.state = "absent" -> {}
    [] st.state = "directory" -> {<<path, DirNode(<<>>)>>}
    [] st.state = "file" -> {<<path, JsFile(st.events, st.imports)>>}

EventsFs(ownProps, baseClass, js, tappable) ==
  MakeFs(
    {<<LibraryPath, DirNode(<<S_components, S_core>>)>>,
     <<join(LibraryPath, S_components), DirNode(<<S_basic>>)>>,
     <<LibraryPath \o <<S_components, S_basic>>, DirNode(<<S_button>>)>>,
     <<ButtonPath,
       DirNode((IF js.state = "absent" THEN <<>> ELSE <<S_button \o Ext_js>>)
               \o <<S_button \o Ext_props>>)>>,
     <<join(ButtonPath, S_button \o Ext_props),
       OneSource(TsSource(PropsInfo(C_ButtonProps, ownProps, baseClass), NULL, NULL))>>,
     <<join(LibraryPath, S_core),
       DirNode(<<BaseComponentMap>>
               \o (IF tappable.state = "absent" THEN <<>>
                   ELSE <<S_tappable_component \o S_js>>))>>,
     <<LibraryPath \o <<S_core, BaseComponentMap>>,
       OneSource(TsSource(PropsInfo(S_BaseProps, EventRootProps, NoBase), NULL, NULL))>>}
    \cup JsNode(ButtonJs, js) \cup JsNode(TappableJs, tappable))

\* nothing excluded, or the property onTap excluded from every component
EventConfigs ==
  {Config({S_button}, <<>>, <<>>, {}, d) :
     d \in {NoExclusions, Documentation({S_onTap}, {}, {}, {}, <<>>)}}

InitEvents ==
  /\ \E ownProps \in SeqsUpTo(EventProps, MaxLen), baseClass \in {NoBase, S_BaseProps} :
       \E js \in ButtonJsStates, tappable \in TappableStates :
         fs = EventsFs(ownProps, baseClass, js, tappable)
  /\ config \in EventConfigs
  /\ basePropsCache = NULL
  /\ call = NoCall
  /\ ret = NULL
  /\ log = <<>>

GenerateWithEvents ==
  \E componentPath \in {ButtonPath}, category \in {S_basic} :
    \E out \in {generateComponentDoc(componentPath, category, basePropsCache, MaxStack)} :
      /\ call' = [op |-> "generateComponentDoc", componentPath |-> componentPath,
                  category |-> category]
      /\ ret' = out.value
      /\ basePropsCache' = out.cache
      /\ log' = out.logged
      /\ UNCHANGED <<fs, config>>

NextEvents == GenerateWithEvents

SpecEvents == InitEvents /\ [][NextEvents]_vars

\* the names of the callback properties of a property list
CallbackNames(props) ==
  {props[i].name : i \in {k \in DOMAIN props :
     /\ Len(props[k].name) >= 2
     /\ SubSeq(props[k].name, 1, 2) = S_on
     /\ \/ props[k].type = S_Function
        \/ \E a \in 1..(Len(props[k].type) - 1) :
             props[k].type[a] = "=" /\ props[k].type[a + 1] = ">"}}
\* the names of the call sites of the compiled file at path, none without one
CallSiteNames(path) ==
  IF path \in DOMAIN fs /\ fs[path].kind = "file"
  THEN {fs[path].data.text.events[i].name : i \in DOMAIN fs[path].data.text.events}
  ELSE {}
\* the names the properties of the component and of the root give
PropertyInferred ==
  CallbackNames(OwnBag.props)
  \cup (IF OwnBase = S_BaseProps THEN CallbackNames(RootList) ELSE {})
\* the names the call sites of the component and of the module it imports give
CallSiteInferred ==
  CallSiteNames(ButtonJs)
  \cup (IF ButtonJs \in DOMAIN fs /\ fs[ButtonJs].kind = "file"
           /\ fs[ButtonJs].data.text.imports # <<>>
        THEN CallSiteNames(TappableJs) ELSE {})
Occurrences(events, name) == Cardinality({i \in DOMAIN events : events[i].name = name})

\* C20: in the events list of every generated document every event name of
\* the property-inferred list or of the call-site-inferred list occurs exactly
\* once and no other name occurs, also when a list has a name more than once.
C20_EachEventOnce ==
  IsDoc =>
    /\ \A name \in PropertyInferred \cup CallSiteInferred :
         Occurrences(ret.events, name) = 1
    /\ \A i \in DOMAIN ret.events :
         ret.events[i].name \in PropertyInferred \cup CallSiteInferred

C20_Witness ==
  /\ IsDoc
  /\ OwnBag.props = <<Prop(S_onTap, S_Function), Prop(S_onTap, T_handler)>>
  /\ OwnBase = S_BaseProps
  /\ ButtonJs \in DOMAIN fs
  /\ fs[ButtonJs].kind = "file"
  /\ fs[ButtonJs].data.text.events = <<CallSite(S_onTap, P_event), CallSite(S_onTap, P_event)>>
  /\ fs[ButtonJs].data.text.imports # <<>>
  /\ TappableJs \in DOMAIN fs
  /\ Len(fs[TappableJs].data.text.events) = 2
  /\ Len(ret.events) = 2
  /\ ret.events[1].name = S_onTap
  /\ ret.events[2].name = S_onLoad
  /\ config.documentation.excludeProps = {S_onTap}

\* the call sites of the compiled file at path in their order, none without one
CallSitesAt(path) ==
  IF path \in DOMAIN fs /\ fs[path].kind = "file" THEN fs[path].data.text.events ELSE <<>>
OwnSites == CallSitesAt(ButtonJs)
ReferencedSites ==
  IF ButtonJs \in DOMAIN fs /\ fs[ButtonJs].kind = "file"
     /\ fs[ButtonJs].data.text.imports # <<>>
  THEN CallSitesAt(TappableJs) ELSE <<>>
\* the entry of a name in the call-site-inferred list that is set last: the
\* component's last call site of that name, else the referenced module's first
SiteOf(name) ==
  LET own == {i \in DOMAIN OwnSites : OwnSites[i].name = name}
      ref == {i \in DOMAIN ReferencedSites : ReferencedSites[i].name = name}
  IN IF own # {} THEN OwnSites[CHOOSE i \in own : \A k \in own : k <= i]
     ELSE ReferencedSites[CHOOSE i \in ref : \A k \in ref : i <= k]

\* C21: for every event name in both the property-inferred and the
\* call-site-inferred list, the merged event has the parameters and the type
\* ('Function') of the call-site-inferred entry, not of the property's.
C21_CallSiteWins ==
  IsDoc =>
    \A name \in PropertyInferred \cap CallSiteInferred :
      \A i \in DOMAIN ret.events :
        ret.events[i].name = name
          => /\ ret.events[i].type = S_Function
             /\ ret.events[i].parameters = SiteOf(name).parameters

C21_Witness ==
  /\ IsDoc
  /\ OwnBag.props = <<Prop(S_onTap, T_handler)>>
  /\ OwnBase = NoBase
  /\ OwnSites = <<CallSite(S_onTap, P_event), CallSite(S_onTap, P_none)>>
  /\ ret.events = <<EventInfo(S_onTap, S_Function, P_none)>>

(***************************************************************************)
(* Event parameter runs: extractEventParameters applied to property types  *)
(* that are callable signatures, wrapped signatures, and opaque names      *)
(***************************************************************************)
A_none == <<>>
A_one == <<"e">>
A_two == <<"e", ",", " ", "f">>
A_callback == <<"c", ":", " ", "(", ")", " ", "=", ">", " ", "v">>
A_lines == <<"e", ",", "\n", "f">>
R_void == <<"v">>
R_callable == <<"(", ")", " ", "=", ">", " ", "v">>
T_string_or == <<"s", " ", "|", " ", "(">>
T_array_of == <<"A", "<">>
T_bare_arrow == <<"e", " ", "=", ">", " ", "v">>
T_alias == <<"H">>

\* the type expression (args) => ReturnType, gap being the white space written
\* between the parameter list and the arrow
Callable(args, gap, returnType) ==
  <<"(">> \o args \o <<")">> \o gap \o <<"=", ">", " ">> \o returnType
Callables ==
  {Callable(args, gap, returnType) :
     args \in {A_none, A_one, A_two, A_callback, A_lines},
     gap \in {<<>>, <<" ">>, <<"\n">>},
     returnType \in {R_void, R_callable}}
EventTypes ==
  Callables
  \cup {T_string_or \o c \o <<")">> : c \in Callables}
  \cup {T_array_of \o c \o <<">">> : c \in Callables}
  \cup {S_Function, S_string, T_alias, T_bare_arrow}

Signature(text) == [kind |-> "signature", text |-> text]

InitParameters ==
  /\ fs = MakeFs({<<LibraryPath, DirNode(<<>>)>>})
  /\ config = Config({}, <<>>, <<>>, {}, NoExclusions)
  /\ basePropsCache = NULL
  /\ call \in {[op |-> "none", eventType |-> t] : t \in EventTypes}
  /\ ret = NULL
  /\ log = <<>>

ExtractEventParameters ==
  /\ call.op = "none"
  /\ call' = [op |-> "extractEventParameters", eventType |-> call.eventType]
  /\ ret' = Signature(extractEventParameters(call.eventType))
  /\ UNCHANGED <<fs, config, basePropsCache, log>>

NextParameters == ExtractEventParameters

SpecParameters == InitParameters /\ [][NextParameters]_vars

IsSignature == call.op = "extractEventParameters"
Opens(t, j) == Cardinality({x \in 1..j : t[x] = "("})
Closes(t, j) == Cardinality({x \in 1..j : t[x] = ")"})
\* the position of the parenthesis that closes the one at position 1
ClosingOf(t) ==
  LET balanced == {j \in DOMAIN t : Opens(t, j) = Closes(t, j)}
  IN IF balanced = {} THEN 0 ELSE CHOOSE j \in balanced : \A k \in balanced : j <= k
\* t is written (args) => ReturnType
HasArrowForm(t) ==
  /\ t # <<>>
  /\ t[1] = "("
  /\ ClosingOf(t) > 0
  /\ \E a \in (ClosingOf(t) + 1)..(Len(t) - 1) :
       /\ \A x \in (ClosingOf(t) + 1)..(a - 1) : t[x] \in {" ", "\n", "\t"}
       /\ t[a] = "=" /\ t[a + 1] = ">"
ArgsOf(t) == SubSeq(t, 2, ClosingOf(t) - 1)
\* somewhere in t a closing parenthesis is followed by an arrow
ClosedBeforeArrow(t) ==
  \E j \in DOMAIN t, a \in DOMAIN t :
    /\ t[j] = ")" /\ j < a /\ a < Len(t)
    /\ \A x \in (j + 1)..(a - 1) : t[x] \in {" ", "\n", "\t"}
    /\ t[a] = "=" /\ t[a + 1] = ">"

\* C22 as stated: the signature is '(args)' for a type written
\* (args) => ReturnType, and the type itself for every other type.
C22_Original ==
  IsSignature =>
    ret.text = (IF HasArrowForm(call.eventType)
                THEN <<"(">> \o ArgsOf(call.eventType) \o <<")">>
                ELSE call.eventType)

\* C22: the signature is '()' for the type Function; '(args)' for a type
\* written (args) => ReturnType whose args hold no parenthesis and no line
\* break; and the type itself for every other type in which no closing
\* parenthesis is followed by an arrow.
C22_SimpleSignatures ==
  IsSignature =>
    /\ call.eventType = S_Function => ret.text = <<"(", ")">>
    /\ (/\ HasArrowForm(call.eventType)
        /\ \A x \in DOMAIN ArgsOf(call.eventType) :
             ArgsOf(call.eventType)[x] \notin {"(", ")", "\n"})
         => ret.text = <<"(">> \o ArgsOf(call.eventType) \o <<")">>
    /\ (call.eventType # S_Function /\ ~ClosedBeforeArrow(call.eventType))
         => ret.text = call.eventType

C22_Witness ==
  /\ IsSignature
  /\ call.eventType = Callable(A_two, <<"\n">>, R_callable)
  /\ ret.text = <<"(">> \o A_two \o <<")">>

\* a callback parameter inside the parameter list cuts the signature short
C22_NestedCut ==
  /\ IsSignature
  /\ call.eventType = Callable(A_callback, <<" ">>, R_void)
  /\ ret.text = <<"(", "c", ":", " ", "(", ")">>

(***************************************************************************)
(* Facet runs: the component button whose props, component and styles map  *)
(* files are each missing, malformed, without content, without the shape   *)
(* the parser looks for, or sound; its compiled file is missing or cannot  *)
(* be read                                                                 *)
(***************************************************************************)
FacetStates == {"absent", "malformed", "empty", "opaque", "sound"}
\* the registered style classes of a sound styles source
StyleClassLists == SeqsUpTo({S_app_tabs, S_app_x}, MaxLen)

Opaque == OneSource(TsSource(NULL, NULL, NULL))
FacetFile(st, sound) ==
  CASE st = "malformed" -> FileNode(InvalidJson)
    [] st = "empty" -> FileNode(SourceMap(Absent, Absent))
    [] st = "opaque" -> Opaque
    [] st = "sound" -> OneSource(sound)

FacetNode(suffix, st, sound) ==
  IF st = "absent" THEN {}
  ELSE {<<join(ButtonPath, S_button \o suffix), FacetFile(st, sound)>>}

FacetsFs(props, component, styles, classes, js) ==
  MakeFs(
    {<<LibraryPath, DirNode(<<S_components>>)>>,
     <<join(LibraryPath, S_components), DirNode(<<S_basic>>)>>,
     <<LibraryPath \o <<S_components, S_basic>>, DirNode(<<S_button>>)>>,
     <<ButtonPath,
       DirNode((IF js = "absent" THEN <<>> ELSE <<S_button \o Ext_js>>)
               \o (IF component = "absent" THEN <<>> ELSE <<S_button \o Ext_component>>)
               \o (IF props = "absent" THEN <<>> ELSE <<S_button \o Ext_props>>)
               \o (IF styles = "absent" THEN <<>> ELSE <<S_button \o Ext_styles>>))>>}
    \cup FacetNode(Ext_props, props,
                   TsSource(PropsInfo(C_ButtonProps, OwnProps, NoBase), NULL, NULL))
    \cup FacetNode(Ext_component, component,
                   TsSource(NULL, MethodsInfo(<<Method(S_open)>>), NULL))
    \cup FacetNode(Ext_styles, styles,
                   TsSource(NULL, NULL, StyleInfo(S_app_tabs, classes)))
    \cup (IF js = "absent" THEN {} ELSE {<<ButtonJs, DirNode(<<>>)>>}))

\* nothing excluded; the default class or another class excluded everywhere;
\* the default class excluded for button only
FacetConfigs ==
  {Config({S_button}, <<>>, <<>>, {}, d) :
     d \in {NoExclusions,
            Documentation({}, {}, {}, {S_app_tabs}, <<>>),
            Documentation({}, {}, {}, {S_app_x}, <<>>),
            Documentation({}, {}, {}, {}, <<Override(S_button, {}, {}, {S_app_tabs})>>)}}

InitFacets ==
  /\ \E props \in FacetStates, component \in FacetStates, styles \in FacetStates :
       \E classes \in (IF styles = "sound" THEN StyleClassLists ELSE {<<>>}) :
         \E js \in {"absent", "unreadable"} :
           fs = FacetsFs(props, component, styles, classes, js)
  /\ config \in FacetConfigs
  /\ basePropsCache = NULL
  /\ call = NoCall
  /\ ret = NULL
  /\ log = <<>>

GenerateWithFacets ==
  \E componentPath \in {ButtonPath}, category \in {S_basic} :
    \E out \in {generateComponentDoc(componentPath, category, basePropsCache, MaxStack)} :
      /\ call' = [op |-> "generateComponentDoc", componentPath |-> componentPath,
                  category |-> category]
      /\ ret' = out.value
      /\ basePropsCache' = out.cache
      /\ log' = out.logged
      /\ UNCHANGED <<fs, config>>

NextFacets == GenerateWithFacets

SpecFacets == InitFacets /\ [][NextFacets]_vars

\* the recovered source of a facet of button, NULL when its map file is
\* missing, malformed or without content
SourceAt(suffix) ==
  LET path == join(ButtonPath, S_button \o suffix)
  IN IF /\ path \in DOMAIN fs
        /\ fs[path].kind = "file"
        /\ fs[path].data.json = "object"
        /\ fs[path].data.sourcesContent.present
        /\ fs[path].data.sourcesContent.items # <<>>
     THEN fs[path].data.sourcesContent.items[1] ELSE NULL
StyleInfoAt == IF SourceAt(Ext_styles) # NULL THEN SourceAt(Ext_styles).styleInfo ELSE NULL
DefaultEntries == {i \in DOMAIN ret.styles : ret.styles[i].description = S_DefaultStyle}
\* the default class of the styles source is excluded by the configuration
DefaultExcluded ==
  StyleInfoAt.defaultClass
    \in config.documentation.excludeStyleClasses
          \cup OverrideNames(call.componentPath[Len(call.componentPath)], "excludeStyleClasses")

\* C23 as stated: in every generated document exactly one entry of the styles
\* list is described 'Default style class', it is the first entry, and its
\* class name occurs in no other entry.
C23_Original ==
  IsDoc =>
    /\ Cardinality(DefaultEntries) = 1
    /\ DefaultEntries = {1}
    /\ \A k \in DOMAIN ret.styles : k # 1 => ret.styles[k].className # ret.styles[1].className

\* C23: in every generated document at most one entry of the styles list is
\* described 'Default style class'; if there is one it is the first entry and
\* its class name occurs in no other entry; there is one exactly when the
\* styles source yields style information and its default class is not
\* excluded by the configuration.
C23_AtMostOneDefault ==
  IsDoc =>
    /\ DefaultEntries \subseteq {1}
    /\ \A i \in DefaultEntries, k \in DOMAIN ret.styles :
         k # i => ret.styles[k].className # ret.styles[i].className
    /\ (DefaultEntries # {}) <=> (StyleInfoAt # NULL /\ ~DefaultExcluded)

C23_Witness ==
  /\ IsDoc
  /\ StyleInfoAt # NULL
  /\ StyleInfoAt.styleClasses = <<S_app_x, S_app_tabs>>
  /\ ret.styles = <<Style(S_app_tabs, S_DefaultStyle), Style(S_app_x, <<>>)>>

\* the default class is excluded and the list is left without a default entry
C23_DefaultFilteredOut ==
  /\ IsDoc
  /\ StyleInfoAt # NULL
  /\ StyleInfoAt.styleClasses = <<S_app_x, S_app_tabs>>
  /\ ret.styles = <<Style(S_app_x, <<>>)>>

IsGenerated == call.op = "generateComponentDoc"
PropertyBagAt == IF SourceAt(Ext_props) # NULL THEN SourceAt(Ext_props).propsInfo ELSE NULL
MethodsInfoAt ==
  IF SourceAt(Ext_component) # NULL THEN SourceAt(Ext_component).methodsInfo ELSE NULL
NoSourceAtAll == SourceAt(Ext_props) = NULL /\ SourceAt(Ext_component) = NULL
\* the compiled file of the component exists and cannot be read as a file
CompiledUnreadable == ButtonJs \in DOMAIN fs /\ fs[ButtonJs].kind # "file"
\* each list of the document is what its own facet gives, whatever the others give
FacetsIndependent ==
  /\ ret.props = (IF PropertyBagAt # NULL THEN PropertyBagAt.props ELSE <<>>)
  /\ ret.methods = (IF MethodsInfoAt # NULL THEN MethodsInfoAt.methods ELSE <<>>)
  /\ StyleInfoAt = NULL => ret.styles = <<>>
  /\ (StyleInfoAt # NULL /\ ~DefaultExcluded)
       => ret.styles[1] = Style(StyleInfoAt.defaultClass, S_DefaultStyle)

\* C25 as stated: generateComponentDoc returns null only when neither the
\* props source nor the component source is available, and otherwise each
\* list of the document is what its own facet gives.
C25_Original ==
  IsGenerated =>
    /\ ret = NULL => NoSourceAtAll
    /\ ret # NULL => FacetsIndependent

\* C25: generateComponentDoc returns null exactly when neither the props
\* source nor the component source is available or the component's compiled
\* file exists and cannot be read; in every document it returns, a props
\* source that is missing or yields no property bag gives an empty props
\* list next to the methods of the component source, and a missing methods
\* or styles facet gives an empty list without affecting the other facets.
C25_FacetsIndependent ==
  IsGenerated =>
    /\ ret = NULL <=> (NoSourceAtAll \/ CompiledUnreadable)
    /\ ret # NULL => FacetsIndependent

C25_Witness ==
  /\ IsGenerated
  /\ ret # NULL
  /\ SourceAt(Ext_props) # NULL
  /\ PropertyBagAt = NULL
  /\ MethodsInfoAt # NULL
  /\ SourceAt(Ext_styles) = NULL
  /\ ret.props = <<>>
  /\ ret.methods = <<Method(S_open)>>
  /\ ret.styles = <<>>

\* both sources are available and the unreadable compiled file leaves no document
C25_UnreadableCompiled ==
  /\ IsGenerated
  /\ ret = NULL
  /\ PropertyBagAt # NULL
  /\ MethodsInfoAt # NULL
  /\ CompiledUnreadable

IsRun == call.op \in {"findAllComponents", "generateAllDocs"}
\* the directory at path holds a props or component map file with content
SoundSource(path) ==
  \E name \in Range(fs[path].entries) :
    /\ fs[join(path, name)].kind = "file"
    /\ \E ext \in {Ext_props, Ext_component} :
         Len(name) >= Len(ext) /\ \A i \in DOMAIN ext : name[Len(name) - Len(ext) + i] = ext[i]
    /\ fs[join(path, name)].data.json = "object"
    /\ fs[join(path, name)].data.sourcesContent.present
\* the walk comes to a directory whose entries cannot be listed
UnreadableReached ==
  \E p \in DOMAIN fs :
    /\ fs[p].kind = "locked"
    /\ Len(p) >= 3
    /\ SubSeq(p, 1, 2) = LibraryPath \o <<S_components>>
    /\ p[3] \notin config.excludeCategories
    /\ \A j \in 4..Len(p) : p[j][1] # "." /\ p[j] # S_node_modules
Documented(path) ==
  \E d \in DOMAIN ret.items :
    /\ ret.items[d].componentPath = path
    /\ ret.items[d].componentName = path[Len(path)]
\* every retained directory with a sound source has its document
OthersDocumented ==
  \A p \in DOMAIN fs :
    (fs[p].kind = "dir" /\ Discoverable(p) /\ SoundSource(p)) => Documented(p)

\* C24 as stated: whatever fails for one component, no exception escapes
\* findAllComponents or generateAllDocs, and generateAllDocs returns a
\* document for every other discoverable component.
C24_Original ==
  IsRun =>
    /\ ret # THROWN
    /\ IsDocs => OthersDocumented

\* C24: a component whose artifact is malformed or unreadable does not keep
\* generateAllDocs from returning the documents of the other retained
\* components; an exception escapes findAllComponents and generateAllDocs
\* exactly when the walk comes to a directory that cannot be listed.
C24_GenerationIsolated ==
  IsRun =>
    /\ ret = THROWN <=> UnreadableReached
    /\ IsDocs => OthersDocumented

C24_Witness ==
  /\ IsDocs
  /\ Discoverable(ButtonPath)
  /\ ~SoundSource(ButtonPath)
  /\ ~Documented(ButtonPath)
  /\ join(ButtonPath, S_icon) \in DOMAIN fs
  /\ Discoverable(join(ButtonPath, S_icon))
  /\ Documented(join(ButtonPath, S_icon))
  /\ \E d \in DOMAIN log : log[d].level = "error"

\* an unreadable directory next to a sound component ends the whole run
C24_WalkAborted ==
  /\ call.op = "generateAllDocs"
  /\ ret = THROWN
  /\ Discoverable(ButtonPath)
  /\ SoundSource(ButtonPath)

(***************************************************************************)
(* Command line: the commands generate and list, each run a process of its *)
(* own with a fresh DocumentationGenerator                                 *)
(***************************************************************************)
S_json == <<".","j","s","o","n">>
S_all_components ==
  <<"a","l","l","-","c","o","m","p","o","n","e","n","t","s">> \o S_json
C_Button == <<"B","u","t","t","o","n">>
\* path.resolve(process.cwd(), options.output)
OutputPath == <<<<"o","u","t","p","u","t">>>>
NoName == <<>>

\* how a run of the command line ends: the exit code, the files it wrote, the
\* groups it printed, the file system and the console output
Ran(code, saved, groups, files, logged) ==
  [code |-> code, crashed |-> FALSE, saved |-> saved, groups |-> groups, files |-> files,
   logged |-> logged]
\* an exception nobody catches ends the process with exit code 1
Crashed(files, logged) ==
  [code |-> 1, crashed |-> TRUE, saved |-> <<>>, groups |-> <<>>, files |-> files,
   logged |-> logged]

\* mkdirSync(dir, { recursive: true }) when dir is missing, then writeFileSync
writeFileSync(files, dir, name, data) ==
  LET made == IF dir \in DOMAIN files THEN files ELSE (dir :> DirNode(<<>>)) @@ files
      listed == IF name \in Range(made[dir].entries) THEN made[dir].entries
                ELSE Append(made[dir].entries, name)
  IN (join(dir, name) :> FileNode([json |-> "object", written |-> data]))
       @@ (dir :> DirNode(listed)) @@ made

saveComponentDoc(files, doc, outputDir) ==
  writeFileSync(files, outputDir, doc.componentName \o S_json, <<doc>>)

saveDocsToFile(files, docs, outputDir) ==
  writeFileSync(files, outputDir, S_all_components, docs)

\* for (const doc of docs) generator.saveComponentDoc(doc, outputPath)
RECURSIVE saveEach(_, _, _)
saveEach(files, docs, i) ==
  IF i > Len(docs) THEN files
  ELSE saveEach(saveComponentDoc(files, docs[i], OutputPath), docs, i + 1)

\* generate --all, from the documents on
savedAll(docs, singleFile, logged) ==
  IF singleFile
  THEN Ran(0, <<S_all_components>>, <<>>, saveDocsToFile(fs, docs, OutputPath),
           logged \o <<Diag("log", "Generated documentation", Len(docs))>>)
  ELSE Ran(0, [i \in DOMAIN docs |-> docs[i].componentName \o S_json], <<>>,
           saveEach(fs, docs, 1),
           logged \o <<Diag("log", "Generated documentation", Len(docs))>>)

generateAll(singleFile, all) ==
  IF all.thrown THEN Crashed(fs, all.logged)
  ELSE savedAll(all.docs, singleFile, all.logged)

\* components.find(c => basename(c.path).toLowerCase() === name.toLowerCase()):
\* its index, 0 if none
findComponent(components, name) ==
  LET hits == {k \in DOMAIN components :
                 toLowerCase(basename(components[k].path)) = toLowerCase(name)}
  IN IF hits = {} THEN 0 ELSE CHOOSE k \in hits : \A h \in hits : k <= h

\* generate --component, from the document on
savedOne(name, logged, generated) ==
  IF generated.value # NULL
  THEN Ran(0, <<generated.value.componentName \o S_json>>, <<>>,
           saveComponentDoc(fs, generated.value, OutputPath),
           logged \o generated.logged
             \o <<Diag("log", "Documentation generated successfully", name)>>)
  ELSE Ran(1, <<>>, <<>>, fs,
           logged \o generated.logged
             \o <<Diag("error", "Failed to generate documentation", name)>>)

\* faulty variant: a component that is not found is reported as generated
notFoundIgnored(name, found) ==
  Ran(0, <<name \o S_json>>, <<>>, fs, found.logged)

\* if (!component): the error, the available components, process.exit(1)
notFound(name, found) ==
  Ran(1, <<>>, <<>>, fs,
      found.logged \o <<Diag("error", "Component not found", name)>>)

\* generate --component, from the list of components on
generateOne(name, found, k) ==
  IF k = 0 THEN notFound(name, found)
  ELSE savedOne(name, found.logged,
                generateComponentDoc(found.value.items[k].path,
                                     found.value.items[k].category, NULL, MaxStack))

generateNamed(name, found) ==
  IF found.value = THROWN THEN Crashed(fs, found.logged)
  ELSE generateOne(name, found, findComponent(found.value.items, name))

\* the names of the components of one category, in the order of the list
namesIn(components, category) ==
  [i \in DOMAIN SelectSeq(components, LAMBDA c : c.category = category) |->
     basename(SelectSeq(components, LAMBDA c : c.category = category)[i].path)]

\* byCategory: one group per category in the order of first appearance
RECURSIVE groupByCategory(_, _, _)
groupByCategory(components, i, groups) ==
  IF i > Len(components) THEN groups
  ELSE groupByCategory(components, i + 1,
         IF \E g \in DOMAIN groups : groups[g].category = components[i].category
         THEN groups
         ELSE Append(groups, [category |-> components[i].category,
                              names |-> namesIn(components, components[i].category)]))

listed(found) ==
  IF found.value = THROWN THEN Crashed(fs, found.logged)
  ELSE Ran(0, <<>>, groupByCategory(found.value.items, 1, <<>>), fs,
           found.logged \o <<Diag("log", "Found components", Len(found.value.items))>>)

\* if (!fs.existsSync(libraryPath)) { console.error(...); process.exit(1) }
libraryMissing ==
  Ran(1, <<>>, <<>>, fs, <<Diag("error", "Library path not found", LibraryPath)>>)

(***************************************************************************)
(* Command line runs: the category basic with button, sound or malformed,  *)
(* the category page with select, and a directory that cannot be listed    *)
(***************************************************************************)
CliLayouts ==
  [library : {TRUE}, button : {"props", "malformed"}, page : BOOLEAN, widget : {"absent", "locked"}]
  \cup [library : {FALSE}, button : {"props"}, page : {FALSE}, widget : {"absent"}]

CliFs(l) ==
  IF ~l.library THEN MakeFs({<<OutputPath, DirNode(<<>>)>>})
  ELSE MakeFs(
    {<<LibraryPath, DirNode(<<S_components>>)>>,
     <<join(LibraryPath, S_components), DirNode(<<S_basic>> \o Opt(l.page, <<S_page>>))>>,
     <<BasicPath, DirNode(<<S_button>> \o Opt(l.widget = "locked", <<S_widget>>))>>}
    \cup ComponentDir(ButtonPath, S_button, l.button, <<>>)
    \cup (IF l.widget = "locked" THEN {<<join(BasicPath, S_widget), LockedDir>>} ELSE {})
    \cup (IF l.page
          THEN {<<LibraryPath \o <<S_components, S_page>>, DirNode(<<S_select>>)>>}
               \cup ComponentDir(LibraryPath \o <<S_components, S_page, S_select>>,
                                 S_select, "props", <<>>)
          ELSE {}))

\* DEFAULT_CONFIG as edited in config.ts: the category page excluded or not,
\* button named in excludeComponents or not
CliConfigs ==
  {Config({S_button, S_select}, <<>>, <<>>, excludeCategories, NoExclusions)
     @@ [excludeComponents |-> excludeComponents] :
     excludeCategories \in {{}, {S_page}}, excludeComponents \in {{}, {S_button}}}

InitCli ==
  /\ \E l \in CliLayouts : fs = CliFs(l)
  /\ config \in CliConfigs
  /\ basePropsCache = NULL
  /\ call = NoCall
  /\ ret = NULL
  /\ log = <<>>

\* the outcome of a run becomes the state; the generator and its cache end
\* with the process
Exit(command, out) ==
  /\ call' = command
  /\ ret' = [kind |-> "exit", code |-> out.code, crashed |-> out.crashed,
             saved |-> out.saved, groups |-> out.groups]
  /\ fs' = out.files
  /\ log' = out.logged
  /\ UNCHANGED <<config, basePropsCache>>

GenerateAll ==
  \E singleFile \in BOOLEAN :
    \E out \in {IF ~existsSync(LibraryPath) THEN libraryMissing
                ELSE generateAll(singleFile, generateAllDocs(NULL, MaxStack))} :
      Exit([op |-> "generate", all |-> TRUE, component |-> NoName,
            singleFile |-> singleFile], out)

GenerateComponent ==
  \E name \in {S_button, C_Button, S_select, S_icon} :
    \E out \in {IF ~existsSync(LibraryPath) THEN libraryMissing
                ELSE generateNamed(name, findAllComponents)} :
      Exit([op |-> "generate", all |-> FALSE, component |-> name, singleFile |-> FALSE], out)

\* neither --all nor --component: the error and program.help(), which ends
\* the process with the exit code of the commander version in use
GenerateNothing ==
  \E code \in {0, 1} :
    \E out \in {IF ~existsSync(LibraryPath) THEN libraryMissing
                ELSE Ran(code, <<>>, <<>>, fs,
                         <<Diag("error", "Please specify --all or --component", NoName)>>)} :
      Exit([op |-> "generate", all |-> FALSE, component |-> NoName,
            singleFile |-> FALSE], out)

List ==
  \E out \in {IF ~existsSync(LibraryPath) THEN libraryMissing ELSE listed(findAllComponents)} :
    Exit([op |-> "list"], out)

NextCli == GenerateAll \/ GenerateComponent \/ GenerateNothing \/ List

SpecCli == InitCli /\ [][NextCli]_vars

\* the component directories of the library and what the configuration says
LibraryComponents == {p \in DOMAIN fs : fs[p].kind = "dir" /\ HoldsDeclaration(p)}
NameOf(p) == p[Len(p)]
\* removed by the exclusion configuration: by its category or by its name
Excluded(p) ==
  p[3] \in config.excludeCategories \/ NameOf(p) \in config.excludeComponents
ListedNames == UNION {Range(ret.groups[g].names) : g \in DOMAIN ret.groups}
IsListRun == call.op = "list" /\ ~ret.crashed /\ existsSync(LibraryPath)
IsAllRun ==
  /\ call.op = "generate" /\ call.all /\ ~call.singleFile
  /\ ~ret.crashed /\ existsSync(LibraryPath)
IsComponentRun ==
  /\ call.op = "generate" /\ ~call.all /\ call.component # NoName
  /\ ~ret.crashed /\ existsSync(LibraryPath)
Named(p) == toLowerCase(NameOf(p)) = toLowerCase(call.component)

\* C26 as stated: a component removed by the exclusion configuration is not
\* listed and not generated by generate --all, and generate --component with
\* its name still generates it.
C26_Original ==
  \A p \in LibraryComponents :
    (Excluded(p) /\ SoundSource(p)) =>
      /\ IsListRun => NameOf(p) \notin ListedNames
      /\ IsAllRun => (NameOf(p) \o S_json) \notin Range(ret.saved)
      /\ (IsComponentRun /\ Named(p))
           => ret.code = 0 /\ ret.saved = <<NameOf(p) \o S_json>>

\* C26: list, generate --all and generate --component all go by the list of
\* findAllComponents. A component of an excluded category is not listed, not
\* generated by generate --all, and generate --component with its name ends
\* with 'not found' and exit code 1 without writing a file; a name in
\* excludeComponents changes nothing.
C26_OneListForAll ==
  /\ \A p \in LibraryComponents :
       /\ IsListRun => (NameOf(p) \in ListedNames <=> Discoverable(p))
       /\ IsAllRun =>
            ((NameOf(p) \o S_json) \in Range(ret.saved) <=> (Discoverable(p) /\ SoundSource(p)))
       /\ (IsComponentRun /\ Named(p)) =>
            /\ ret.code = 0 <=> (Discoverable(p) /\ SoundSource(p))
            /\ ret.saved = (IF Discoverable(p) /\ SoundSource(p)
                            THEN <<NameOf(p) \o S_json>> ELSE <<>>)
            /\ ~Discoverable(p) =>
                 /\ join(OutputPath, NameOf(p) \o S_json) \notin DOMAIN fs
                 /\ \E d \in DOMAIN log : log[d].msg = "Component not found"
  /\ (IsComponentRun /\ ~\E p \in LibraryComponents : Named(p)) => ret.code = 1

SelectPath == LibraryPath \o <<S_components, S_page, S_select>>

C26_Witness ==
  /\ IsComponentRun
  /\ call.component = S_select
  /\ SelectPath \in LibraryComponents
  /\ SoundSource(SelectPath)
  /\ S_page \in config.excludeCategories
  /\ ret.code = 1
  /\ ret.saved = <<>>

\* a component named in excludeComponents is listed all the same
C26_NamedStillListed ==
  /\ IsListRun
  /\ S_button \in config.excludeComponents
  /\ S_button \in ListedNames

\* the call stack was exhausted during the call: the RangeError left the call,
\* or the catch block of a getInheritedProps frame or of generateComponentDoc
\* reported it
StackExhausted ==
  \/ ret = THROWN
  \/ Logged("Error extracting") # {}
  \/ Logged("Error generating docs") # {}
\* the type names resolved in turn from a declared parent, followed as far as
\* more frames than the stack holds
ResolvedFrom(name) == Walk(name, MaxStack + 1)

\* C27: getInheritedProps keeps no record of the type names it has visited.
\* A resolution whose chain of resolved parent type names visits no type twice
\* returns, whether the chain ends at the root type, at a name without a props
\* file, at an unparsable file or at a type without a declared parent; a
\* resolution whose chain revisits a type recurses until the call stack is
\* exhausted.
C27_TerminatesIffNoRevisit ==
  /\ call.op = "getInheritedProps"
       => /\ StackExhausted <=> ~Simple(ResolvedFrom(call.baseClassName))
          /\ Simple(ResolvedFrom(call.baseClassName)) => ret.kind = "list"
  /\ call.op = "generateComponentDoc"
       => /\ StackExhausted <=> ~Simple(OwnChain)
          /\ Simple(OwnChain) => ret # NULL

C27_Witness ==
  /\ call.op = "getInheritedProps"
  /\ call.baseClassName = TypeName(1)
  /\ BagOf(TypeName(1)) # NULL
  /\ BagOf(TypeName(1)).baseClass = TypeName(2)
  /\ BagOf(TypeName(2)) # NULL
  /\ BagOf(TypeName(2)).baseClass = TypeName(1)
  /\ StackExhausted

\* a chain of two ancestors that ends at a name without a props file returns
C27_SimpleChainReturns ==
  /\ call.op = "getInheritedProps"
  /\ ResolvedFrom(call.baseClassName) = <<TypeName(1), TypeName(2)>>
  /\ StopsAt(call.baseClassName, MaxStack + 1) = C_GhostProps
  /\ ret.kind = "list"
  /\ Len(ret.items) = Len(TypeProps(1)) + Len(TypeProps(2))

(***************************************************************************)
(* Cache runs: one generator documents button, whose parent is the root    *)
(* type, again and again while the root artifact is replaced on disk       *)
(***************************************************************************)
AltRootProps == <<Prop(S_title, S_string)>>
\* the root artifact: missing, without a property bag, or a property bag
\* under the root's or another class name
RootVersions ==
  {[state |-> "missing"], [state |-> "garbage"]}
  \cup {[state |-> "bag", className |-> c, props |-> p] :
          c \in {S_BaseProps, C_ButtonProps}, p \in {RootProps, AltRootProps, <<>>}}

CacheFs(root) ==
  MakeFs(
    {<<LibraryPath, DirNode(<<S_components, S_core>>)>>,
     <<join(LibraryPath, S_components), DirNode(<<S_basic>>)>>,
     <<BasicPath, DirNode(<<S_button>>)>>,
     <<ButtonPath, DirNode(<<S_button \o Ext_props>>)>>,
     <<join(ButtonPath, S_button \o Ext_props),
       OneSource(TsSource(PropsInfo(C_ButtonProps, OwnProps, S_BaseProps), NULL, NULL))>>,
     <<join(LibraryPath, S_core),
       DirNode(IF root.state = "missing" THEN <<>> ELSE <<BaseComponentMap>>)>>}
    \cup (IF root.state = "missing" THEN {}
          ELSE {<<LibraryPath \o <<S_core, BaseComponentMap>>,
                  IF root.state = "garbage" THEN Opaque
                  ELSE OneSource(TsSource(PropsInfo(root.className, root.props, NoBase),
                                          NULL, NULL))>>}))

InitCache ==
  /\ \E root \in RootVersions : fs = CacheFs(root)
  /\ config \in InheritConfigs
  /\ basePropsCache = NULL
  /\ call = NoCall
  /\ ret = NULL
  /\ log = <<>>

GenerateCached ==
  \E out \in {generateComponentDoc(ButtonPath, S_basic, basePropsCache, MaxStack)} :
    /\ call' = [op |-> "generateComponentDoc", componentPath |-> ButtonPath,
                category |-> S_basic]
    /\ ret' = out.value
    /\ basePropsCache' = out.cache
    /\ log' = out.logged
    /\ UNCHANGED <<fs, config>>

ResolveRoot ==
  \E out \in {getInheritedProps(S_BaseProps, basePropsCache, 1, MaxStack)} :
    /\ call' = [op |-> "getInheritedProps", baseClassName |-> S_BaseProps]
    /\ ret' = [kind |-> "list", items |-> out.items]
    /\ basePropsCache' = out.cache
    /\ log' = out.logged
    /\ UNCHANGED <<fs, config>>

\* the environment: the library on disk is replaced between two generations
ReplaceRoot ==
  \E root \in RootVersions :
    /\ fs' = CacheFs(root)
    /\ fs' # fs
    /\ call' = [op |-> "replaceRoot"]
    /\ UNCHANGED <<config, basePropsCache, ret, log>>

NextCache == GenerateCached \/ ResolveRoot \/ ReplaceRoot

SpecCache == InitCache /\ [][NextCache]_vars

\* the inherited part of what a resolution of the root returned
InheritedReturned ==
  IF call.op = "getInheritedProps" THEN ret.items
  ELSE SelectSeq(ret.props, LAMBDA p : p.inherited)
\* the root artifact on disk holds a property bag named BaseProps
RootLoads == RootBag # NULL /\ RootBag.className = S_BaseProps
\* what a resolution returns for a root list: tagged with the root's name,
\* and in a document cut down by the exclusion policy
FromRoot(list) ==
  IF call.op = "getInheritedProps" THEN Tagged(list, S_BaseProps)
  ELSE Retained(Tagged(list, S_BaseProps))
ResolutionStep == call'.op \in {"getInheritedProps", "generateComponentDoc"}

\* C28: in one generator, once the root artifact has been loaded with class
\* name 'BaseProps' every later resolution returns the cached list without
\* reading the artifact again and leaves the cache as it is; while nothing is
\* cached, a resolution loads the artifact when it holds such a bag, and
\* otherwise caches nothing and returns an empty inherited list.
C28_LoadedOnce ==
  [][/\ basePropsCache # NULL => basePropsCache' = basePropsCache
     /\ ResolutionStep =>
          /\ basePropsCache # NULL =>
               InheritedReturned' = FromRoot(basePropsCache.items)'
          /\ (basePropsCache = NULL /\ RootLoads) =>
               /\ basePropsCache' = Cached(RootBag.props)
               /\ InheritedReturned' = FromRoot(RootBag.props)'
          /\ (basePropsCache = NULL /\ ~RootLoads) =>
               /\ basePropsCache' = NULL
               /\ InheritedReturned' = <<>>]_vars

C28_Witness ==
  /\ call.op = "getInheritedProps"
  /\ basePropsCache = Cached(RootProps)
  /\ RootLoads
  /\ RootBag.props = AltRootProps
  /\ ret.items = Tagged(RootProps, S_BaseProps)

\* the names of a list of properties, call sites or events, in their order
NamesOf(items) == [i \in DOMAIN items |-> items[i].name]
\* the callback properties of the component and then of the root, in order
PropertyInferredInOrder ==
  LET all == OwnBag.props \o (IF OwnBase = S_BaseProps THEN RootList ELSE <<>>)
  IN NamesOf(SelectSeq(all, LAMBDA p : p.name \in CallbackNames(<<p>>)))
\* a sequence of names without the later occurrences of each name
RECURSIVE FirstOccurrences(_)
FirstOccurrences(names) ==
  IF names = <<>> THEN <<>>
  ELSE LET front == FirstOccurrences(SubSeq(names, 1, Len(names) - 1))
           last == names[Len(names)]
       IN IF \E i \in DOMAIN front : front[i] = last THEN front
          ELSE Append(front, last)

\* C29: the names of the merged events of a generated document are the
\* property-inferred names in extraction order, then the call-site names that
\* no property gave, the component's own call sites before those of the
\* module it imports; a name found both ways stays at its property position.
C29_MergedOrder ==
  IsDoc =>
    NamesOf(ret.events) =
      FirstOccurrences(PropertyInferredInOrder
                       \o SelectSeq(NamesOf(OwnSites) \o NamesOf(ReferencedSites),
                                    LAMBDA n : n \notin PropertyInferred))

C29_Witness ==
  /\ IsDoc
  /\ OwnBag.props = <<Prop(S_onTap, T_handler), Prop(S_onLoad, S_Function)>>
  /\ OwnSites = <<CallSite(S_onTap, P_event)>>
  /\ ret.events[1] = EventInfo(S_onTap, S_Function, P_event)
  /\ ret.events[2].name = S_onLoad

\* a name no property gave comes after the property-inferred names, the
\* component's own call site before the imported module's
C29_CallSitesLast ==
  /\ IsDoc
  /\ OwnBag.props = <<Prop(S_onTap, S_Function)>>
  /\ OwnBase = NoBase
  /\ NamesOf(OwnSites) = <<S_onLoad, S_onTap>>
  /\ NamesOf(ret.events) = <<S_onTap, S_onLoad>>

(***************************************************************************)
(* LLMDocGenerator (llm-doc-generator.ts): one document is sent to the     *)
(* provider, the answer is cleaned and parsed, and asked for again with    *)
(* the strict prompt when it does not parse                                *)
(***************************************************************************)
MAX_RETRIES == 2
\* provider answers prepared for one run, one more than the code can ask for
MaxCalls == MAX_RETRIES + 2

\* the grave accent U+0060 of Markdown code fences, written as a caret
Grave == "^"
Fence == <<Grave, Grave, Grave>>
W_json == <<"j", "s", "o", "n">>
Quote == "\""
S_ErrorGenerating == <<"E", "r", "r", "o", "r">>
K_overview == <<"o", "v">>
K_props == <<"p", "r">>
K_events == <<"e", "v">>
K_methods == <<"m", "e">>
K_styling == <<"s", "t">>
ApiKey == [kind |-> "apiKey"]

IsJsSpace(c) == c \in {" ", "\n", "\t", "\r"}
\* String.prototype.trim
RECURSIVE trim(_)
trim(text) ==
  IF text = <<>> THEN text
  ELSE IF IsJsSpace(Head(text)) THEN trim(Tail(text))
  ELSE IF IsJsSpace(text[Len(text)]) THEN trim(SubSeq(text, 1, Len(text) - 1))
  ELSE text
dropFirst(text, n) == SubSeq(text, n + 1, Len(text))
\* cleanJson.replace of the opening fence, its word json and one line break
stripOpeningFence(text) ==
  LET afterFence == dropFirst(text, 3)
      afterWord == IF startsWith(afterFence, W_json) THEN dropFirst(afterFence, 4)
                   ELSE afterFence
  IN IF startsWith(afterWord, <<"\n">>) THEN dropFirst(afterWord, 1) ELSE afterWord
\* cleanJson.replace of the closing fence and the line break before it
stripClosingFence(text) ==
  LET beforeFence == SubSeq(text, 1, Len(text) - 3)
  IN IF endsWith(beforeFence, <<"\n">>) THEN SubSeq(beforeFence, 1, Len(beforeFence) - 1)
     ELSE beforeFence
cleanJson(jsonResponse) ==
  LET trimmed == trim(jsonResponse)
      opened == IF startsWith(trimmed, Fence) THEN stripOpeningFence(trimmed) ELSE trimmed
  IN IF endsWith(opened, Fence) THEN stripClosingFence(opened) ELSE opened

\* JSON.parse for texts that are objects with string members: the grammar of
\* whitespace, braces, quoted strings without escapes, colons and commas
RECURSIVE skipSpace(_, _)
skipSpace(text, i) ==
  IF i <= Len(text) /\ IsJsSpace(text[i]) THEN skipSpace(text, i + 1) ELSE i
\* the index after the string literal that starts at i, 0 when there is none
stringEnd(text, i) ==
  IF i > Len(text) \/ text[i] # Quote THEN 0
  ELSE LET closing == {j \in (i + 1)..Len(text) : text[j] = Quote}
       IN IF closing = {} THEN 0
          ELSE LET j == CHOOSE x \in closing : \A y \in closing : x <= y
               IN IF \E k \in (i + 1)..(j - 1) : text[k] \in {"\n", "\t", "\r"} THEN 0
                  ELSE j + 1
Parsed(members) == [kind |-> "object", members |-> members]
\* the members from index i on, up to the closing brace and the end of text
RECURSIVE parseMembers(_, _, _)
parseMembers(text, i, members) ==
  LET keyEnd == stringEnd(text, i)
      colon == skipSpace(text, keyEnd)
      valueStart == skipSpace(text, colon + 1)
      valueEnd == stringEnd(text, valueStart)
      next == skipSpace(text, valueEnd)
      member == <<SubSeq(text, i + 1, keyEnd - 2), SubSeq(text, valueStart + 1, valueEnd - 2)>>
  IN IF keyEnd = 0 \/ colon > Len(text) \/ text[colon] # ":" THEN THROWN
     ELSE IF valueEnd = 0 \/ next > Len(text) THEN THROWN
     ELSE IF text[next] = "," THEN parseMembers(text, skipSpace(text, next + 1),
                                                 Append(members, member))
     ELSE IF text[next] = "}" /\ skipSpace(text, next + 1) > Len(text)
          THEN Parsed(Append(members, member))
     ELSE THROWN
jsonParse(text) ==
  LET open == skipSpace(text, 1)
      first == skipSpace(text, open + 1)
  IN IF open > Len(text) \/ text[open] # "{" \/ first > Len(text) THEN THROWN
     ELSE IF text[first] = "}"
          THEN IF skipSpace(text, first + 1) > Len(text) THEN Parsed(<<>>) ELSE THROWN
     ELSE parseMembers(text, first, <<>>)

\* new LLMDocGenerator(config, apiKey)
LLMDocGenerator(llm, apiKey) ==
  [llm |-> llm,
   anthropic |-> llm.provider = "claude" /\ apiKey # NULL,
   openai |-> ~(llm.provider = "claude" /\ apiKey # NULL)
              /\ llm.provider = "openai" /\ apiKey # NULL]

buildPrompt(doc, existingDocs) ==
  [kind |-> "normal", componentName |-> doc.componentName, existingDocs |-> existingDocs]
buildStrictPrompt(doc, existingDocs) ==
  [kind |-> "strict", componentName |-> doc.componentName, existingDocs |-> existingDocs]

Fallback ==
  Parsed(<<<<K_overview, S_ErrorGenerating>>, <<K_props, S_ErrorGenerating>>,
           <<K_events, S_ErrorGenerating>>, <<K_methods, S_ErrorGenerating>>,
           <<K_styling, S_ErrorGenerating>>>>)

Request(provider, prompt, maxTokens, answer) ==
  [provider |-> provider, prompt |-> prompt, max_tokens |-> maxTokens, answer |-> answer]
Answered(text, calls) == [kind |-> "text", text |-> text, calls |-> calls]
Rejected(calls) == [kind |-> "throw", calls |-> calls]
\* what the client of the provider gives back as text: the text content, or the
\* empty string for content that is no text
textOf(answer) == IF answer.kind = "text" THEN answer.text ELSE <<>>

generateWithClaude(generator, prompt, isRetry, answer, calls) ==
  IF ~generator.anthropic THEN Rejected(calls)
  ELSE LET maxTokens == IF isRetry THEN 8000 ELSE 5000
           made == Append(calls, Request("claude", prompt, maxTokens, answer))
       IN IF answer.kind = "error" THEN Rejected(made)
          ELSE Answered(textOf(answer), made)

generateWithOpenAI(generator, prompt, isRetry, answer, calls) ==
  IF ~generator.openai THEN Rejected(calls)
  ELSE LET maxTokens == IF isRetry THEN 8000 ELSE 4000
           made == Append(calls, Request("openai", prompt, maxTokens, answer))
       IN IF answer.kind = "error" THEN Rejected(made)
          ELSE Answered(textOf(answer), made)

\* faulty variant: the last allowed retry is followed by one more
mayRetryOnceMore(retryCount) == retryCount <= MAX_RETRIES

mayRetry(retryCount) == retryCount < MAX_RETRIES

LlmRun(kind, value, calls, logged) ==
  [kind |-> kind, value |-> value, calls |-> calls, logged |-> logged]

\* generateAllDocs(componentDoc, retryCount): answers[k] is what the provider
\* does at its k-th call, existingDocs what fetchDocContent finds
RECURSIVE llmGenerateAllDocs(_, _, _, _, _, _, _)
llmGenerateAllDocs(generator, componentDoc, retryCount, existingDocs, answers, calls, logged) ==
  LET answer == answers[Len(calls) + 1]
      isRetry == retryCount > 0
      prompt == IF isRetry THEN buildStrictPrompt(componentDoc, existingDocs)
                ELSE buildPrompt(componentDoc, existingDocs)
      response ==
        CASE generator.llm.provider = "claude" ->
               generateWithClaude(generator, prompt, isRetry, answer, calls)
          [] generator.llm.provider = "openai" ->
               generateWithOpenAI(generator, prompt, isRetry, answer, calls)
          [] OTHER -> Rejected(calls)
  IN IF response.kind = "throw" THEN LlmRun("throw", NULL, response.calls, logged)
     ELSE LET parsed == jsonParse(cleanJson(response.text))
          IN IF parsed # THROWN THEN LlmRun("return", parsed, response.calls, logged)
             ELSE IF mayRetry(retryCount) /\ Len(response.calls) < MaxCalls
                  THEN llmGenerateAllDocs(
                         generator, componentDoc, retryCount + 1, existingDocs, answers,
                         response.calls,
                         Append(logged, Diag("warn", "JSON parse failed", retryCount + 1)))
             ELSE LlmRun("return", Fallback, response.calls,
                         logged \o <<Diag("error", "Failed to parse LLM JSON response",
                                          retryCount),
                                     Diag("error", "Raw response", retryCount)>>)

\* provider answers: a bare object, a fenced and padded object, a cut object,
\* prose before a fence, content that is no text, and an API error
R_object == <<"{", Quote, "a", Quote, ":", " ", Quote, "b", Quote, "}">>
R_fenced == <<"\n">> \o Fence \o W_json \o <<"\n">> \o R_object \o <<"\n">> \o Fence \o <<" ">>
R_cut == <<"{", Quote, "a", Quote, ":", " ", Quote, "b">>
R_prose == <<"o", "k", ":">> \o Fence \o W_json \o <<"\n">> \o R_object \o Fence
ResponseTexts == {R_object, R_fenced, R_cut, R_prose}
ProviderAnswers ==
  {[kind |-> "text", text |-> t] : t \in ResponseTexts}
  \cup {[kind |-> k] : k \in {"nontext", "error"}}

LlmConfigs ==
  {LLMDocGenerator([provider |-> p], k) :
     p \in {"claude", "openai", "ollama", "gemini"}, k \in {NULL, ApiKey}}

InitLlm ==
  /\ fs = MakeFs({})
  /\ config \in LlmConfigs
  /\ basePropsCache = NULL
  /\ call = NoCall
  /\ ret = NULL
  /\ log = <<>>

LlmGenerateAllDocs ==
  \E answers \in [1..MaxCalls -> ProviderAnswers], existingDocs \in BOOLEAN :
    \E out \in {llmGenerateAllDocs(config, [componentName |-> S_button], 0, existingDocs,
                                   answers, <<>>, <<>>)} :
      /\ call' = [op |-> "llmGenerateAllDocs", componentName |-> S_button]
      /\ ret' = [kind |-> out.kind, value |-> out.value, calls |-> out.calls]
      /\ log' = out.logged
      /\ UNCHANGED <<fs, config, basePropsCache>>

NextLlm == LlmGenerateAllDocs

SpecLlm == InitLlm /\ [][NextLlm]_vars

IsLlmRun == call.op = "llmGenerateAllDocs"
NamesOfMembers(object) == [i \in DOMAIN object.members |-> object.members[i][1]]
\* the answers that are a JSON object once surrounding fences are taken off
ParsableTexts == {R_object, R_fenced}
Parses(answer) == answer.kind = "text" /\ answer.text \in ParsableTexts
NoObject(answer) == answer.kind = "nontext" \/ (answer.kind = "text" /\ ~Parses(answer))

\* C30: one run of generateAllDocs calls the provider at most three times,
\* first with the normal prompt and then with the strict one; every call but
\* the last got an answer that does not parse; an answer that parses is
\* returned by the call that got it; three answers that do not parse give the
\* fallback object of five sections; a provider error ends the run by raising.
C30_BoundedRetries ==
  IsLlmRun =>
    LET calls == ret.calls
        n == Len(calls)
    IN /\ n <= MAX_RETRIES + 1
       /\ \A i \in 1..n :
            calls[i].prompt.kind = (IF i = 1 THEN "normal" ELSE "strict")
       /\ \A i \in 1..(n - 1) : NoObject(calls[i].answer)
       /\ n >= 1 =>
            /\ Parses(calls[n].answer)
                 => ret.kind = "return" /\ ret.value = Parsed(<<<<<<"a">>, <<"b">>>>>>)
            /\ calls[n].answer.kind = "error" => ret.kind = "throw"
            /\ NoObject(calls[n].answer)
                 => /\ n = MAX_RETRIES + 1
                    /\ ret.kind = "return"
                    /\ ret.value = Fallback
                    /\ NamesOfMembers(ret.value) =
                         <<K_overview, K_props, K_events, K_methods, K_styling>>
       /\ n = 0 => ret.kind = "throw"

C30_Witness ==
  /\ IsLlmRun
  /\ Len(ret.calls) = 3
  /\ ret.calls[1].answer.kind = "text"
  /\ ret.calls[1].answer.text = R_cut
  /\ ret.calls[2].answer.kind = "nontext"
  /\ ret.calls[3].answer.kind = "text"
  /\ ret.calls[3].answer.text = R_prose
  /\ ret.value = Fallback
  /\ Len(log) = 4

\* a retry whose answer parses ends the run with that answer
C30_RetryParses ==
  /\ IsLlmRun
  /\ Len(ret.calls) = 2
  /\ ret.calls[2].prompt.kind = "strict"
  /\ ret.calls[2].answer.kind = "text"
  /\ ret.calls[2].answer.text = R_fenced
  /\ ret.kind = "return"
  /\ ret.value # Fallback

\* a provider error at a retry is raised, not asked for again
C30_ErrorRaised ==
  /\ IsLlmRun
  /\ Len(ret.calls) = 2
  /\ ret.calls[2].answer.kind = "error"
  /\ ret.kind = "throw"

====
